---- MODULE Spec2Model ----
(***************************************************************************)
(* A model of the resume-journal core of verba_resume_journal:             *)
(*   - ConversationManager (the SessionStore), conversation_manager.py     *)
(*   - SkillsExtractor (the SkillsEngine and its cache), skills_extractor  *)
(* Each part has its own next-state relation and specification; the        *)
(* variables of the other part stay at their initial values.               *)
(***************************************************************************)
EXTENDS Integers, Sequences, FiniteSets, TLC

VARIABLES
    max_exchanges,  \* ConversationManager.max_exchanges
    sessions,       \* ConversationManager.sessions: session id -> ConversationSession
    now,            \* the wall clock read by datetime.now(), in hours (sessions, cache entries)
    appended,       \* history: per live session, every message appended since creation / last reset
    lastOp,         \* history: the last SessionStore call, its arguments and its return value
    today,          \* the wall clock read by datetime.now(), in days (the age of a skill)
    cache_exists,   \* whether the collection VERBA_Cache_Skills exists
    cache,          \* the objects of VERBA_Cache_Skills
    llm_calls,      \* number of generate_stream calls issued so far
    prevOn,         \* history: per text, a summary of the last extract_skills call on it
    lastEx,         \* history: the last extract_skills call
    skill_exists,   \* whether the collection VERBA_Skill exists
    skill_store,    \* the objects of VERBA_Skill
    lastSk,         \* history: the last calculate_proficiency / store_or_update_skill call
    upserted,       \* history: per skill name, the successful upserts and their document ids
    upserts,        \* the store_or_update_skill calls in flight, one per caller
    lastCat,        \* history: the last categorize_skills call
    lastReq,        \* history: the last extract_job_requirements call
    lastRet,        \* history: the last retrieve_relevant_experiences call
    gen,            \* the generate_resume call in flight
    lastGen,        \* history: the last step of a generate_resume call
    lastFmt,        \* history: the last format_resume / export_resume call
    run,            \* the generation run of an endpoint call
    resume_store,   \* the collection VERBA_ResumeRecord: whether it exists, and its objects
    lastTrk,        \* history: the last ResumeTracker call
    gens,           \* the overlapping generate_resume calls, one per caller
    completed,      \* history: the overlapping calls that returned a Resume, in the order they returned
    clients,        \* ClientManager.clients, in the order of the dict: hash, client, timestamp
    locks,          \* ClientManager.locks: per credentials hash, absent, free or its holder
    conns,          \* the ClientManager.connect calls, one per caller
    opened,         \* history: the credentials hash of every client manager.connect returned
    cleanup,        \* the ClientManager.clean_up call
    minutes         \* the wall clock read by datetime.now(), in minutes (the age of a client)

sessionVars == <<max_exchanges, sessions, now, appended, lastOp>>
extractVars == <<cache_exists, cache, llm_calls, prevOn, lastEx>>
skillVars   == <<skill_exists, skill_store, lastSk, upserted>>
pipelineVars == <<upserts, lastCat, lastReq, lastRet, gen, lastGen>>
trackerVars == <<resume_store, lastTrk>>
raceVars == <<gens, completed>>
clientVars == <<clients, locks, conns, opened, cleanup, minutes>>
apiVars == <<lastFmt, run, trackerVars, raceVars, clientVars>>
vars == <<sessionVars, today, extractVars, skillVars, pipelineVars, apiVars>>

----------------------------------------------------------------------------
(* Bounds of the model *)

MaxExchangesBound == 1   \* the store is constructed with max_exchanges in 0..MaxExchangesBound
MaxAppends == 3          \* appends held by the live sessions together
MaxTime == 1             \* the clock runs over 0..MaxTime hours
MaxAgeHours == 0         \* cleanup is called with max_age_hours in 0..MaxAgeHours

SessionIds == {"s1", "s2"}
ValidRoles == {"user", "assistant"}
Roles == ValidRoles \cup {"system"}      \* "system" stands for every invalid role
Contents == {"c1"}
\* dicts are sets of key/value pairs; None is passed as the empty dict, which
\* `metadata or {}` maps to the same value
MetadataInputs == {{}, {<<"role", "r1">>}}

----------------------------------------------------------------------------
(* Helpers *)

Min(a, b) == IF a < b THEN a ELSE b
Max(a, b) == IF a > b THEN a ELSE b

\* Python's s[start:] for a list s and any integer start
PySliceFrom(s, start) ==
    LET n  == Len(s)
        lo == IF start < 0 THEN Max(n + start, 0) ELSE Min(start, n)
    IN  SubSeq(s, lo + 1, n)

\* `metadata or {}`
OrEmptyDict(md) == IF md = {} THEN {} ELSE md

\* the function f without the key k (del d[k])
DictDel(f, k) == [x \in (DOMAIN f) \ {k} |-> f[x]]

\* the function f with d[k] = v
DictPut(f, k, v) == [x \in (DOMAIN f) \cup {k} |-> IF x = k THEN v ELSE f[x]]

----------------------------------------------------------------------------
(* ConversationManager *)

ConversationMessage(role, content, md, t) ==
    [role |-> role, content |-> content, timestamp |-> t, metadata |-> OrEmptyDict(md)]

ConversationSession(sid, md, mx, t) ==
    [session_id |-> sid, messages |-> <<>>, created_at |-> t, updated_at |-> t,
     metadata |-> OrEmptyDict(md), max_exchanges |-> mx]

\* create_session without the `if session_id in self.sessions` early return
create_session_overwrite(ss, mx, sid, md, t) ==
    [sessions |-> DictPut(ss, sid, ConversationSession(sid, md, mx, t)), ret |-> sid]

\* create_session with the id resolved (a None id is replaced by a fresh uuid4)
create_session(ss, mx, sid, md, t) ==
    IF sid \in DOMAIN ss
    THEN [sessions |-> ss, ret |-> sid]
    ELSE [sessions |-> DictPut(ss, sid, ConversationSession(sid, md, mx, t)), ret |-> sid]

\* _prune_session applied to one session record
prune_session(session) ==
    LET max_messages == session.max_exchanges * 2
    IN  IF Len(session.messages) > max_messages
        THEN [session EXCEPT !.messages = PySliceFrom(session.messages, 0 - max_messages)]
        ELSE session

\* append_message without the role check
append_message_any_role(ss, sid, role, content, md, t) ==
    IF sid \notin DOMAIN ss
    THEN [sessions |-> ss, ret |-> FALSE]
    ELSE LET message == ConversationMessage(role, content, md, t)
             grown   == [ss[sid] EXCEPT !.messages = Append(@, message), !.updated_at = t]
         IN  [sessions |-> [ss EXCEPT ![sid] = prune_session(grown)], ret |-> TRUE]

append_message(ss, sid, role, content, md, t) ==
    IF sid \notin DOMAIN ss
    THEN [sessions |-> ss, ret |-> FALSE]
    ELSE IF role \notin ValidRoles
    THEN [sessions |-> ss, ret |-> FALSE]
    ELSE LET message == ConversationMessage(role, content, md, t)
             grown   == [ss[sid] EXCEPT !.messages = Append(@, message), !.updated_at = t]
         IN  [sessions |-> [ss EXCEPT ![sid] = prune_session(grown)], ret |-> TRUE]

\* reset_session that replaces the session by a new one instead of clearing its messages
reset_session_recreate(ss, sid, t) ==
    IF sid \notin DOMAIN ss
    THEN [sessions |-> ss, ret |-> FALSE]
    ELSE [sessions |-> [ss EXCEPT ![sid] = ConversationSession(sid, {}, @.max_exchanges, t)],
          ret |-> TRUE]

reset_session(ss, sid, t) ==
    IF sid \notin DOMAIN ss
    THEN [sessions |-> ss, ret |-> FALSE]
    ELSE [sessions |-> [ss EXCEPT ![sid] = [@ EXCEPT !.messages = <<>>, !.updated_at = t]],
          ret |-> TRUE]

delete_session(ss, sid) ==
    IF sid \notin DOMAIN ss
    THEN [sessions |-> ss, ret |-> FALSE]
    ELSE [sessions |-> DictDel(ss, sid), ret |-> TRUE]

\* the age test with >= for >
SessionIsOldInclusive(session, max_age_hours, t) ==
    (t - session.updated_at) * 3600 >= max_age_hours * 3600

\* (now - session.updated_at).total_seconds() / 3600 > max_age_hours, the clock in hours
SessionIsOld(session, max_age_hours, t) ==
    (t - session.updated_at) * 3600 > max_age_hours * 3600

cleanup_old_sessions(ss, max_age_hours, t) ==
    LET sessions_to_delete == {sid \in DOMAIN ss : SessionIsOld(ss[sid], max_age_hours, t)}
    IN  [sessions |-> [sid \in (DOMAIN ss) \ sessions_to_delete |-> ss[sid]],
         ret |-> Cardinality(sessions_to_delete)]

----------------------------------------------------------------------------
(* SessionStore actions *)

RECURSIVE SumLen(_, _)
SumLen(f, S) == IF S = {} THEN 0
                ELSE LET x == CHOOSE y \in S : TRUE IN Len(f[x]) + SumLen(f, S \ {x})
TotalAppended(f) == SumLen(f, DOMAIN f)

NoOp == [op |-> "none", sid |-> "-", arg |-> {}, ret |-> "-"]

InitSessionStore ==
    /\ max_exchanges \in 0..MaxExchangesBound
    /\ sessions = <<>>
    /\ now = 0
    /\ appended = <<>>
    /\ lastOp = NoOp

\* create_session(session_id, metadata) with an explicit id
CreateSession ==
    \E sid \in SessionIds, md \in MetadataInputs :
        LET r == create_session(sessions, max_exchanges, sid, md, now)
        IN  /\ sessions' = r.sessions
            /\ appended' = IF sid \in DOMAIN sessions THEN appended
                           ELSE DictPut(appended, sid, <<>>)
            /\ lastOp' = [op |-> "create", sid |-> sid, arg |-> md, ret |-> r.ret]
            /\ UNCHANGED <<apiVars, pipelineVars, max_exchanges, now, today, extractVars, skillVars>>

\* create_session(None, metadata): uuid4 gives an id no session has
CreateSessionFresh ==
    \E sid \in SessionIds \ DOMAIN sessions, md \in MetadataInputs :
        LET r == create_session(sessions, max_exchanges, sid, md, now)
        IN  /\ sessions' = r.sessions
            /\ appended' = DictPut(appended, sid, <<>>)
            /\ lastOp' = [op |-> "create", sid |-> sid, arg |-> md, ret |-> r.ret]
            /\ UNCHANGED <<apiVars, pipelineVars, max_exchanges, now, today, extractVars, skillVars>>

AppendMessage ==
    \E sid \in SessionIds, role \in Roles, content \in Contents :
        LET r   == append_message(sessions, sid, role, content, {}, now)
            msg == ConversationMessage(role, content, {}, now)
        IN  /\ TotalAppended(appended) < MaxAppends
            /\ sessions' = r.sessions
            /\ appended' = IF r.ret THEN [appended EXCEPT ![sid] = Append(@, msg)]
                           ELSE appended
            /\ lastOp' = [op |-> "append", sid |-> sid, arg |-> {role}, ret |-> r.ret]
            /\ UNCHANGED <<apiVars, pipelineVars, max_exchanges, now, today, extractVars, skillVars>>

ResetSession ==
    \E sid \in SessionIds :
        LET r == reset_session(sessions, sid, now)
        IN  /\ sessions' = r.sessions
            /\ appended' = IF r.ret THEN [appended EXCEPT ![sid] = <<>>] ELSE appended
            /\ lastOp' = [op |-> "reset", sid |-> sid, arg |-> {}, ret |-> r.ret]
            /\ UNCHANGED <<apiVars, pipelineVars, max_exchanges, now, today, extractVars, skillVars>>

DeleteSession ==
    \E sid \in SessionIds :
        LET r == delete_session(sessions, sid)
        IN  /\ sessions' = r.sessions
            /\ appended' = [x \in DOMAIN r.sessions |-> appended[x]]
            /\ lastOp' = [op |-> "delete", sid |-> sid, arg |-> {}, ret |-> r.ret]
            /\ UNCHANGED <<apiVars, pipelineVars, max_exchanges, now, today, extractVars, skillVars>>

CleanupOldSessions ==
    \E max_age_hours \in 0..MaxAgeHours :
        LET r == cleanup_old_sessions(sessions, max_age_hours, now)
        IN  /\ sessions' = r.sessions
            /\ appended' = [x \in DOMAIN r.sessions |-> appended[x]]
            /\ lastOp' = [op |-> "cleanup", sid |-> "-", arg |-> {max_age_hours}, ret |-> r.ret]
            /\ UNCHANGED <<apiVars, pipelineVars, max_exchanges, now, today, extractVars, skillVars>>

\* time passes between calls
Tick ==
    /\ now < MaxTime
    /\ now' = now + 1
    /\ lastOp' = [op |-> "tick", sid |-> "-", arg |-> {}, ret |-> "-"]
    /\ UNCHANGED <<apiVars, pipelineVars, max_exchanges, sessions, appended, today, extractVars, skillVars>>

NextSession ==
    \/ CreateSession
    \/ CreateSessionFresh
    \/ AppendMessage
    \/ ResetSession
    \/ DeleteSession
    \/ CleanupOldSessions
    \/ Tick

----------------------------------------------------------------------------
(* SkillsExtractor: bounds and inputs *)

MaxLLMCalls == 2         \* generate_stream calls in one run
MaxUpserts == 3          \* occurrence_count summed over the skill store

Texts == {"t1", "t2"}
SkillNames == {"Python", "Go"}
\* the names calculate_proficiency is called on from outside the class
ScoredNames == {"Python"}
DocIds == {"d1", "d2", "d3"}
\* document lists passed to calculate_proficiency: the empty list, lists with
\* repeated ids, lists of distinct ids
DocLists == {<<>>, <<"d1">>, <<"d1", "d1">>, <<"d1", "d2">>, <<"d1", "d1", "d2">>,
             <<"d1", "d2", "d3">>}

\* the days at which the clock is observed: they put the age of a persisted
\* last_used on both sides of each recency threshold
DayPoints == <<0, 30, 90, 180>>

\* what one language-model call (_call_llm_for_extraction) can meet: the
\* generator or its stream raises, the text holds no "[" ... "]", the text
\* between them is no JSON, or it is a JSON array of strings
LLMOutcomes ==
    {[kind |-> "raise", array |-> <<>>],
     [kind |-> "no_array", array |-> <<>>],
     [kind |-> "bad_json", array |-> <<>>],
     [kind |-> "array", array |-> <<" ">>],
     [kind |-> "array", array |-> <<"Python">>],
     [kind |-> "array", array |-> <<"Python", " Go ">>]}

\* Weaviate returns a DATE property as a datetime object; from_weaviate_object
\* also allows for an ISO string
StoredDateReprs == {"datetime", "str"}

Range(s) == {s[i] : i \in 1..Len(s)}

None == [some |-> FALSE, v |-> <<>>]
Some(v) == [some |-> TRUE, v |-> v]

----------------------------------------------------------------------------
(* SkillsExtractor: the extraction cache *)

\* hashlib.md5(text.encode()).hexdigest(): one digest per text of the model
generate_cache_key(text) == <<"md5", text>>

\* json.dumps / json.loads of a list of strings
json_dumps(skills) == <<"json", skills>>
json_loads(s) == s[2]

\* str.strip() on the strings of the model
Strip(s) == CASE s = " "    -> ""
              [] s = " Go " -> "Go"
              [] OTHER      -> s

\* [skill.strip() for skill in skills if skill.strip()]
RECURSIVE StripNonEmpty(_)
StripNonEmpty(skills) ==
    IF skills = <<>> THEN <<>>
    ELSE LET rest == StripNonEmpty(Tail(skills))
         IN  IF Strip(Head(skills)) # "" THEN <<Strip(Head(skills))>> \o rest ELSE rest

\* _call_llm_for_extraction: every failure is logged and gives []; calls counts
\* the call
call_llm_for_extraction(outcome) ==
    [skills |-> IF outcome.kind = "array" THEN StripNonEmpty(outcome.array) ELSE <<>>,
     calls  |-> 1]

\* the cache lookup with the filter comparing cache_key to the text itself
get_cached_skills_by_text(exists, objs, cache_key, fail) == None

\* _get_cached_skills: None on a miss, on a missing collection and on any failure
get_cached_skills(exists, objs, cache_key, fail) ==
    IF fail THEN None
    ELSE IF ~exists THEN None
    ELSE LET found == {o \in objs : o.cache_key = cache_key}
         IN  IF found # {}
             THEN Some(json_loads((CHOOSE o \in found : TRUE).skills))
             ELSE None

NextUuid(objs) == Cardinality(objs) + 1

\* _cache_skills: creates the collection if needed, then updates the entry of
\* the key or inserts one; a failure is logged and nothing is written
cache_skills(exists, objs, cache_key, skills, t, fail) ==
    IF fail THEN [exists |-> exists, objs |-> objs, ret |-> FALSE]
    ELSE LET existing   == {o \in objs : o.cache_key = cache_key}
             cache_data == [cache_key |-> cache_key, skills |-> json_dumps(skills),
                            cached_at |-> t]
         IN  IF existing # {}
             THEN LET old == CHOOSE o \in existing : TRUE
                  IN  [exists |-> TRUE,
                       objs |-> (objs \ {old}) \cup {[uuid |-> old.uuid] @@ cache_data},
                       ret |-> TRUE]
             ELSE [exists |-> TRUE,
                   objs |-> objs \cup {[uuid |-> NextUuid(objs)] @@ cache_data},
                   ret |-> TRUE]

\* extract_skills that writes the cache again on a hit
extract_skills_refresh(exists, objs, text, use_cache, t, outcome, read_fail, write_fail) ==
    LET cache_key == generate_cache_key(text)
        cached    == IF use_cache THEN get_cached_skills(exists, objs, cache_key, read_fail)
                     ELSE None
        llm       == call_llm_for_extraction(outcome)
        written   == IF cached.some
                     THEN cache_skills(exists, objs, cache_key, cached.v, t, write_fail)
                     ELSE IF use_cache /\ llm.skills # <<>>
                     THEN cache_skills(exists, objs, cache_key, llm.skills, t, write_fail)
                     ELSE [exists |-> exists, objs |-> objs, ret |-> FALSE]
    IN  [exists |-> written.exists, objs |-> written.objs, hit |-> cached.some,
         calls |-> IF cached.some THEN 0 ELSE llm.calls,
         ret |-> IF cached.some THEN cached.v ELSE llm.skills, raised |-> FALSE]

\* extract_skills: the cache is read first; on a miss the model is called once
\* and a non-empty result is cached. None of the three helpers lets an
\* exception out, so the call does not raise.
extract_skills(exists, objs, text, use_cache, t, outcome, read_fail, write_fail) ==
    LET cache_key == generate_cache_key(text)
        cached    == IF use_cache THEN get_cached_skills(exists, objs, cache_key, read_fail)
                     ELSE None
    IN  IF cached.some
        THEN [exists |-> exists, objs |-> objs, hit |-> TRUE, calls |-> 0, ret |-> cached.v,
              raised |-> FALSE]
        ELSE LET llm     == call_llm_for_extraction(outcome)
                 written == IF use_cache /\ llm.skills # <<>>
                            THEN cache_skills(exists, objs, cache_key, llm.skills, t, write_fail)
                            ELSE [exists |-> exists, objs |-> objs, ret |-> FALSE]
             IN  [exists |-> written.exists, objs |-> written.objs, hit |-> FALSE,
                  calls |-> llm.calls, ret |-> llm.skills, raised |-> FALSE]

----------------------------------------------------------------------------
(* SkillsExtractor: proficiency and the skill store *)

\* scores are in hundredths: 0.5 is 50
OccurrenceCap == 50
DiversityCap == 30
DefaultRecency == 20
ProficiencyCap == 100
DefaultProficiency == 50

\* the recency score of a skill last used `days` days ago
RecencyScore(days) ==
    IF days < 30 THEN 20
    ELSE IF days < 90 THEN 15
    ELSE IF days < 180 THEN 10
    ELSE 5

\* Skill.to_dict: last_used is written with a UTC offset
to_dict(skill) ==
    [skill EXCEPT !.last_used = [t |-> skill.last_used.t, aware |-> TRUE]]

\* datetime.fromisoformat(props.get("last_used")) followed by
\* (datetime.now() - last_used).days: fromisoformat raises TypeError on a
\* datetime object, and a naive datetime.now() minus an aware datetime raises
\* TypeError
days_since_use(last_used, repr, t) ==
    IF repr # "str" THEN [raised |-> TRUE, days |-> 0]
    ELSE IF last_used.aware THEN [raised |-> TRUE, days |-> 0]
    ELSE [raised |-> FALSE, days |-> t - last_used.t]

\* calculate_proficiency with the persisted last_used read as a naive datetime,
\* so that the recency branch runs
calculate_proficiency_naive_dates(exists, objs, skill_name, documents, t, repr, fail) ==
    IF fail THEN DefaultProficiency
    ELSE LET occurrence_score == Min(Len(documents) * 10, OccurrenceCap)
             diversity_score  == Min(Cardinality(Range(documents)) * 20, DiversityCap)
             found            == {o \in objs : o.name = skill_name}
             recency_score    ==
                 IF exists /\ found # {}
                 THEN RecencyScore(t - (CHOOSE o \in found : TRUE).last_used.t)
                 ELSE DefaultRecency
         IN  Min(occurrence_score + diversity_score + recency_score, ProficiencyCap)

\* calculate_proficiency without the min(...) caps
calculate_proficiency_uncapped(exists, objs, skill_name, documents, t, repr, fail) ==
    IF fail THEN DefaultProficiency
    ELSE LET found == {o \in objs : o.name = skill_name}
             since == days_since_use((CHOOSE o \in found : TRUE).last_used, repr, t)
         IN  IF exists /\ found # {} /\ since.raised THEN DefaultProficiency
             ELSE Len(documents) * 10 + Cardinality(Range(documents)) * 20
                  + (IF exists /\ found # {} THEN RecencyScore(since.days) ELSE DefaultRecency)

\* calculate_proficiency: any exception inside gives the default 0.5
calculate_proficiency(exists, objs, skill_name, documents, t, repr, fail) ==
    IF fail THEN DefaultProficiency
    ELSE LET occurrence_score == Min(Len(documents) * 10, OccurrenceCap)
             diversity_score  == Min(Cardinality(Range(documents)) * 20, DiversityCap)
             found            == {o \in objs : o.name = skill_name}
             since            == days_since_use((CHOOSE o \in found : TRUE).last_used, repr, t)
         IN  IF exists /\ found # {}
             THEN IF since.raised THEN DefaultProficiency
                  ELSE Min(occurrence_score + diversity_score + RecencyScore(since.days),
                           ProficiencyCap)
             ELSE Min(occurrence_score + diversity_score + DefaultRecency, ProficiencyCap)

\* store_or_update_skill without the `not in existing_skill.source_documents` test
store_or_update_skill_always_append(exists, objs, skill_name, category, source_document_id, t, repr, fail) ==
    IF fail \in {"exists", "fetch"} \/ ~exists
    THEN [objs |-> objs, ret |-> "error"]
    ELSE LET found == {o \in objs : o.name = skill_name}
         IN  IF found # {}
             THEN LET old  == CHOOSE o \in found : TRUE
                      docs == Append(old.source_documents, source_document_id)
                      existing_skill ==
                          [old EXCEPT !.source_documents = docs,
                                      !.occurrence_count = @ + 1,
                                      !.last_used = [t |-> t, aware |-> FALSE],
                                      !.proficiency_score =
                                          calculate_proficiency(exists, objs, skill_name, docs,
                                                                t, repr, fail = "calc")]
                  IN  IF fail = "write" THEN [objs |-> objs, ret |-> "error"]
                      ELSE [objs |-> (objs \ {old}) \cup {to_dict(existing_skill)},
                            ret |-> "ok"]
             ELSE LET new_skill ==
                          [uuid |-> NextUuid(objs), name |-> skill_name, category |-> category,
                           proficiency_score |->
                               calculate_proficiency(exists, objs, skill_name,
                                                     <<source_document_id>>, t, repr,
                                                     fail = "calc"),
                           occurrence_count |-> 1,
                           source_documents |-> <<source_document_id>>,
                           last_used |-> [t |-> t, aware |-> FALSE]]
                  IN  IF fail = "write" THEN [objs |-> objs, ret |-> "error"]
                      ELSE [objs |-> objs \cup {to_dict(new_skill)}, ret |-> "ok"]

\* store_or_update_skill. fail names the vector-store call that raises, if any:
\* "exists" and "fetch" (the calls before the branch), "calc" (a call inside
\* calculate_proficiency), "write" (data.update / data.insert)
store_or_update_skill(exists, objs, skill_name, category, source_document_id, t, repr, fail) ==
    IF fail \in {"exists", "fetch"} \/ ~exists
    THEN [objs |-> objs, ret |-> "error"]
    ELSE LET found == {o \in objs : o.name = skill_name}
         IN  IF found # {}
             THEN LET old  == CHOOSE o \in found : TRUE
                      docs == IF source_document_id \notin Range(old.source_documents)
                              THEN Append(old.source_documents, source_document_id)
                              ELSE old.source_documents
                      existing_skill ==
                          [old EXCEPT !.source_documents = docs,
                                      !.occurrence_count = @ + 1,
                                      !.last_used = [t |-> t, aware |-> FALSE],
                                      !.proficiency_score =
                                          calculate_proficiency(exists, objs, skill_name, docs,
                                                                t, repr, fail = "calc")]
                  IN  IF fail = "write" THEN [objs |-> objs, ret |-> "error"]
                      ELSE [objs |-> (objs \ {old}) \cup {to_dict(existing_skill)},
                            ret |-> "ok"]
             ELSE LET new_skill ==
                          [uuid |-> NextUuid(objs), name |-> skill_name, category |-> category,
                           proficiency_score |->
                               calculate_proficiency(exists, objs, skill_name,
                                                     <<source_document_id>>, t, repr,
                                                     fail = "calc"),
                           occurrence_count |-> 1,
                           source_documents |-> <<source_document_id>>,
                           last_used |-> [t |-> t, aware |-> FALSE]]
                  IN  IF fail = "write" THEN [objs |-> objs, ret |-> "error"]
                      ELSE [objs |-> objs \cup {to_dict(new_skill)}, ret |-> "ok"]

----------------------------------------------------------------------------
(* SkillsExtractor actions *)

NoExtract == [op |-> "none", text |-> "-", use_cache |-> FALSE, hit |-> FALSE, calls |-> 0,
              ret |-> <<>>, store_ok |-> TRUE, before |-> [seen |-> FALSE], llm |-> "-",
              raised |-> FALSE]
NoSkillOp == [op |-> "none", name |-> "-", doc |-> "-", docs |-> <<>>, ret |-> "-",
              score |-> 0, age |-> 0, fail |-> "none"]
NoUpserts == [n \in SkillNames |-> [count |-> 0, docs |-> {}]]

InitSkills ==
    /\ today = 0
    /\ cache_exists \in BOOLEAN
    /\ cache = {}
    /\ llm_calls = 0
    /\ prevOn = [x \in Texts |-> [seen |-> FALSE]]
    /\ lastEx = NoExtract
    /\ skill_exists \in BOOLEAN
    /\ skill_store = {}
    /\ lastSk = NoSkillOp
    /\ upserted = NoUpserts

\* the state of the part a specification does not run
SkillsIdle ==
    /\ today = 0
    /\ cache_exists = TRUE
    /\ cache = {}
    /\ llm_calls = 0
    /\ prevOn = [x \in Texts |-> [seen |-> FALSE]]
    /\ lastEx = NoExtract
    /\ skill_exists = TRUE
    /\ skill_store = {}
    /\ lastSk = NoSkillOp
    /\ upserted = NoUpserts

SessionIdle ==
    /\ max_exchanges = 10
    /\ sessions = <<>>
    /\ now = 0
    /\ appended = <<>>
    /\ lastOp = NoOp

\* time passes between calls
NextDay ==
    /\ \E i \in 1..(Len(DayPoints) - 1) : today = DayPoints[i] /\ today' = DayPoints[i + 1]
    /\ UNCHANGED <<apiVars, pipelineVars, sessionVars, extractVars, skillVars>>

\* one extract_skills call, with what the language model and the vector store do
ExtractSkills ==
    \E text \in Texts, use_cache \in BOOLEAN, outcome \in LLMOutcomes,
       read_fail \in BOOLEAN, write_fail \in BOOLEAN :
      \E r \in {extract_skills(cache_exists, cache, text, use_cache, now, outcome,
                                read_fail, write_fail)} :
        LET cold == \A o \in cache : o.cache_key # generate_cache_key(text)
            summary == [seen |-> TRUE, use_cache |-> use_cache, cold |-> cold,
                        calls |-> r.calls, nonempty |-> r.ret # <<>>,
                        store_ok |-> ~read_fail /\ ~write_fail]
        IN  /\ llm_calls + r.calls <= MaxLLMCalls
            /\ cache_exists' = r.exists
            /\ cache' = r.objs
            /\ llm_calls' = llm_calls + r.calls
            /\ prevOn' = [prevOn EXCEPT ![text] = summary]
            /\ lastEx' = [op |-> "extract", text |-> text, use_cache |-> use_cache,
                          hit |-> r.hit, calls |-> r.calls, ret |-> r.ret,
                          store_ok |-> ~read_fail /\ ~write_fail,
                          before |-> prevOn[text],
                          llm |-> IF r.calls = 0 THEN "-" ELSE outcome.kind,
                          raised |-> r.raised]
            /\ UNCHANGED <<apiVars, pipelineVars, sessionVars, today, skillVars>>


RECURSIVE SumOccurrence(_)
SumOccurrence(objs) ==
    IF objs = {} THEN 0
    ELSE LET o == CHOOSE x \in objs : TRUE IN o.occurrence_count + SumOccurrence(objs \ {o})

AgeOf(objs, name, t) ==
    IF \E o \in objs : o.name = name
    THEN t - (CHOOSE o \in objs : o.name = name).last_used.t
    ELSE 0

\* one calculate_proficiency call from outside the class
ScoreProficiency ==
    \E name \in ScoredNames, docs \in DocLists, repr \in StoredDateReprs, fail \in BOOLEAN :
        /\ lastSk' = [op |-> "score", name |-> name, doc |-> "-", docs |-> docs, ret |-> "ok",
                      score |-> calculate_proficiency(skill_exists, skill_store, name, docs,
                                                      today, repr, fail),
                      age |-> AgeOf(skill_store, name, today),
                      fail |-> IF fail THEN "calc" ELSE "none"]
        /\ UNCHANGED <<apiVars, pipelineVars, sessionVars, today, extractVars, skill_exists, skill_store, upserted>>

\* one store_or_update_skill call for a name of the set names, from start to
\* return with no other call in between
UpsertCall(names) ==
    \E name \in names, doc \in DocIds, repr \in StoredDateReprs,
       fail \in {"none", "exists", "fetch", "calc", "write"} :
      \E r \in {store_or_update_skill(skill_exists, skill_store, name, "other", doc, today,
                                     repr, fail)} :
            /\ SumOccurrence(skill_store) < MaxUpserts
            /\ skill_store' = r.objs
            /\ lastSk' = [op |-> "upsert", name |-> name, doc |-> doc, docs |-> <<>>,
                          ret |-> r.ret, score |-> 0,
                          age |-> AgeOf(skill_store, name, today), fail |-> fail]
            /\ upserted' = IF r.ret = "ok"
                           THEN [upserted EXCEPT ![name] = [count |-> @.count + 1,
                                                            docs |-> @.docs \cup {doc}]]
                           ELSE upserted
            /\ UNCHANGED <<apiVars, pipelineVars, sessionVars, today, extractVars, skill_exists>>

\* upserts of the skill that is also scored
StoreOrUpdateSkill == UpsertCall(ScoredNames)

\* upserts of several skills
StoreOrUpdateSkills == UpsertCall(SkillNames)

NextExtract ==
    \/ ExtractSkills
    \/ Tick

NextSkills ==
    \/ ScoreProficiency
    \/ StoreOrUpdateSkill
    \/ NextDay

NextUpsert ==
    \/ StoreOrUpdateSkills
    \/ NextDay

----------------------------------------------------------------------------
(* SkillsExtractor: store_or_update_skill calls that overlap *)
(* A call gives up control at each await on the vector store; between two    *)
(* awaits of one call the other caller may run.                              *)

MaxCallsPerCaller == 1   \* store_or_update_skill calls made by one caller

Callers == {"u1", "u2"}
RaceDocIds == {"d1", "d2"}

IdleCaller == [pc |-> "idle", calls |-> 0, name |-> "-", doc |-> "-", hit |-> FALSE,
               skill |-> <<>>]

notUpserts == <<apiVars, sessionVars, today, extractVars, skill_exists, lastSk, upserted, lastCat,
                lastReq, lastRet, gen, lastGen>>

\* the call starts and awaits collections.exists (line 546); the collection exists
UpsertExists(p) ==
    \E name \in SkillNames, doc \in RaceDocIds :
        /\ upserts[p].pc \in {"idle", "done"}
        /\ upserts[p].calls < MaxCallsPerCaller
        /\ skill_exists
        /\ upserts' = [upserts EXCEPT ![p] = [pc |-> "fetch", calls |-> @.calls + 1,
                                              name |-> name, doc |-> doc, hit |-> FALSE,
                                              skill |-> <<>>]]
        /\ UNCHANGED <<apiVars, skill_store, notUpserts>>

\* await fetch_objects(name, limit=1) (lines 552-555), then the branch up to the
\* call of calculate_proficiency: the record to write is built from what the
\* fetch returned
UpsertFetch(p) ==
    LET c     == upserts[p]
        found == {o \in skill_store : o.name = c.name}
    IN  /\ c.pc = "fetch"
        /\ IF found # {}
           THEN \E old \in found :
                  LET docs == IF c.doc \notin Range(old.source_documents)
                              THEN Append(old.source_documents, c.doc)
                              ELSE old.source_documents
                  IN  upserts' = [upserts EXCEPT ![p] =
                          [c EXCEPT !.pc = "calc_exists", !.hit = TRUE,
                                    !.skill = [old EXCEPT !.source_documents = docs,
                                                          !.occurrence_count = @ + 1,
                                                          !.last_used = [t |-> today,
                                                                         aware |-> FALSE]]]]
           ELSE upserts' = [upserts EXCEPT ![p] =
                    [c EXCEPT !.pc = "calc_exists", !.hit = FALSE,
                              !.skill = [uuid |-> 0, name |-> c.name, category |-> "other",
                                         proficiency_score |-> 0, occurrence_count |-> 1,
                                         source_documents |-> <<c.doc>>,
                                         last_used |-> [t |-> today, aware |-> FALSE]]]]
        /\ UNCHANGED <<apiVars, skill_store, notUpserts>>

\* calculate_proficiency awaits collections.exists (line 495)
UpsertCalcExists(p) ==
    /\ upserts[p].pc = "calc_exists"
    /\ upserts' = [upserts EXCEPT ![p].pc = "calc_fetch"]
    /\ UNCHANGED <<apiVars, skill_store, notUpserts>>

\* calculate_proficiency awaits fetch_objects (line 497) and returns the score
UpsertCalcFetch(p) ==
    \E repr \in StoredDateReprs :
        LET c == upserts[p]
        IN  /\ c.pc = "calc_fetch"
            /\ upserts' = [upserts EXCEPT ![p] =
                   [c EXCEPT !.pc = "write",
                             !.skill = [@ EXCEPT !.proficiency_score =
                                 calculate_proficiency(skill_exists, skill_store, c.name,
                                                       c.skill.source_documents, today,
                                                       repr, FALSE)]]]
            /\ UNCHANGED <<apiVars, skill_store, notUpserts>>

\* await data.update(uuid, properties) on a hit (line 573), data.insert(properties)
\* on a miss (line 596); insert gives the object a new uuid
UpsertWrite(p) ==
    LET c == upserts[p]
    IN  /\ c.pc = "write"
        /\ skill_store' =
              IF c.hit
              THEN {o \in skill_store : o.uuid # c.skill.uuid} \cup {to_dict(c.skill)}
              ELSE skill_store \cup
                       {to_dict([c.skill EXCEPT !.uuid = NextUuid(skill_store)])}
        /\ upserts' = [upserts EXCEPT ![p].pc = "done"]
        /\ UNCHANGED notUpserts

NextUpsertRace ==
    \E p \in Callers :
        \/ UpsertExists(p)
        \/ UpsertFetch(p)
        \/ UpsertCalcExists(p)
        \/ UpsertCalcFetch(p)
        \/ UpsertWrite(p)

----------------------------------------------------------------------------
(* SkillsExtractor: categorization *)

MaxSkills == 3           \* skill names in one categorize_skills call

\* a string is the sequence of its characters
SkillInputs == {<<"G", "o">>, <<"R", "e", "a", "c", "t">>, <<"a", "g", "i", "l", "e">>,
                <<"Y", "o", "g", "a">>, <<>>}

\* the taxonomy, in declaration order
SKILL_CATEGORIES ==
    <<
     [category |-> "programming_languages",
      skills |-> <<
          <<"P", "y", "t", "h", "o", "n">>,
          <<"J", "a", "v", "a", "S", "c", "r", "i", "p", "t">>,
          <<"T", "y", "p", "e", "S", "c", "r", "i", "p", "t">>,
          <<"J", "a", "v", "a">>,
          <<"C", "+", "+">>,
          <<"C", "#">>,
          <<"G", "o">>,
          <<"R", "u", "s", "t">>,
          <<"R", "u", "b", "y">>,
          <<"P", "H", "P">>,
          <<"S", "w", "i", "f", "t">>,
          <<"K", "o", "t", "l", "i", "n">>,
          <<"S", "c", "a", "l", "a">>,
          <<"R">>,
          <<"M", "A", "T", "L", "A", "B">>,
          <<"S", "Q", "L">>>>],
     [category |-> "frameworks",
      skills |-> <<
          <<"R", "e", "a", "c", "t">>,
          <<"A", "n", "g", "u", "l", "a", "r">>,
          <<"V", "u", "e">>,
          <<"D", "j", "a", "n", "g", "o">>,
          <<"F", "l", "a", "s", "k">>,
          <<"F", "a", "s", "t", "A", "P", "I">>,
          <<"S", "p", "r", "i", "n", "g">>,
          <<"E", "x", "p", "r", "e", "s", "s">>,
          <<"N", "e", "x", "t", ".", "j", "s">>,
          <<"N", "u", "x", "t", ".", "j", "s">>,
          <<"L", "a", "r", "a", "v", "e", "l">>,
          <<"R", "a", "i", "l", "s">>,
          <<"A", "S", "P", ".", "N", "E", "T">>,
          <<"T", "e", "n", "s", "o", "r", "F", "l", "o", "w">>,
          <<"P", "y", "T", "o", "r", "c", "h">>>>],
     [category |-> "databases",
      skills |-> <<
          <<"P", "o", "s", "t", "g", "r", "e", "S", "Q", "L">>,
          <<"M", "y", "S", "Q", "L">>,
          <<"M", "o", "n", "g", "o", "D", "B">>,
          <<"R", "e", "d", "i", "s">>,
          <<"E", "l", "a", "s", "t", "i", "c", "s", "e", "a", "r", "c", "h">>,
          <<"C", "a", "s", "s", "a", "n", "d", "r", "a">>,
          <<"D", "y", "n", "a", "m", "o", "D", "B">>,
          <<"O", "r", "a", "c", "l", "e">>,
          <<"S", "Q", "L", " ", "S", "e", "r", "v", "e", "r">>,
          <<"N", "e", "o", "4", "j">>,
          <<"W", "e", "a", "v", "i", "a", "t", "e">>,
          <<"P", "i", "n", "e", "c", "o", "n", "e">>>>],
     [category |-> "cloud_platforms",
      skills |-> <<
          <<"A", "W", "S">>,
          <<"A", "z", "u", "r", "e">>,
          <<"G", "C", "P">>,
          <<"H", "e", "r", "o", "k", "u">>,
          <<"D", "i", "g", "i", "t", "a", "l", "O", "c", "e", "a", "n">>,
          <<"V", "e", "r", "c", "e", "l">>,
          <<"N", "e", "t", "l", "i", "f", "y">>,
          <<"C", "l", "o", "u", "d", "F", "l", "a", "r", "e">>,
          <<"I", "B", "M", " ", "C", "l", "o", "u", "d">>,
          <<"O", "r", "a", "c", "l", "e", " ", "C", "l", "o", "u", "d">>>>],
     [category |-> "devops_tools",
      skills |-> <<
          <<"D", "o", "c", "k", "e", "r">>,
          <<"K", "u", "b", "e", "r", "n", "e", "t", "e", "s">>,
          <<"J", "e", "n", "k", "i", "n", "s">>,
          <<"G", "i", "t", "L", "a", "b", " ", "C", "I">>,
          <<"G", "i", "t", "H", "u", "b", " ", "A", "c", "t", "i", "o", "n", "s">>,
          <<"T", "e", "r", "r", "a", "f", "o", "r", "m">>,
          <<"A", "n", "s", "i", "b", "l", "e">>,
          <<"C", "h", "e", "f">>,
          <<"P", "u", "p", "p", "e", "t">>,
          <<"C", "i", "r", "c", "l", "e", "C", "I">>,
          <<"T", "r", "a", "v", "i", "s", " ", "C", "I">>,
          <<"A", "r", "g", "o", "C", "D">>>>],
     [category |-> "data_science",
      skills |-> <<
          <<"M", "a", "c", "h", "i", "n", "e", " ", "L", "e", "a", "r", "n", "i", "n", "g">>,
          <<"D", "e", "e", "p", " ", "L", "e", "a", "r", "n", "i", "n", "g">>,
          <<"N", "L", "P">>,
          <<"C", "o", "m", "p", "u", "t", "e", "r", " ", "V", "i", "s", "i", "o", "n">>,
          <<"D", "a", "t", "a", " ", "A", "n", "a", "l", "y", "s", "i", "s">>,
          <<"S", "t", "a", "t", "i", "s", "t", "i", "c", "a", "l", " ", "M", "o", "d", "e", "l", "i", "n", "g">>,
          <<"F", "e", "a", "t", "u", "r", "e", " ", "E", "n", "g", "i", "n", "e", "e", "r", "i", "n", "g">>,
          <<"M", "o", "d", "e", "l", " ", "D", "e", "p", "l", "o", "y", "m", "e", "n", "t">>,
          <<"M", "L", "O", "p", "s">>>>],
     [category |-> "soft_skills",
      skills |-> <<
          <<"L", "e", "a", "d", "e", "r", "s", "h", "i", "p">>,
          <<"C", "o", "m", "m", "u", "n", "i", "c", "a", "t", "i", "o", "n">>,
          <<"P", "r", "o", "b", "l", "e", "m", " ", "S", "o", "l", "v", "i", "n", "g">>,
          <<"T", "e", "a", "m", " ", "C", "o", "l", "l", "a", "b", "o", "r", "a", "t", "i", "o", "n">>,
          <<"P", "r", "o", "j", "e", "c", "t", " ", "M", "a", "n", "a", "g", "e", "m", "e", "n", "t">>,
          <<"A", "g", "i", "l", "e">>,
          <<"S", "c", "r", "u", "m">>,
          <<"M", "e", "n", "t", "o", "r", "i", "n", "g">>,
          <<"T", "e", "c", "h", "n", "i", "c", "a", "l", " ", "W", "r", "i", "t", "i", "n", "g">>>>],
     [category |-> "tools",
      skills |-> <<
          <<"G", "i", "t">>,
          <<"V", "S", " ", "C", "o", "d", "e">>,
          <<"I", "n", "t", "e", "l", "l", "i", "J">>,
          <<"J", "u", "p", "y", "t", "e", "r">>,
          <<"P", "o", "s", "t", "m", "a", "n">>,
          <<"J", "i", "r", "a">>,
          <<"C", "o", "n", "f", "l", "u", "e", "n", "c", "e">>,
          <<"S", "l", "a", "c", "k">>,
          <<"F", "i", "g", "m", "a">>,
          <<"A", "d", "o", "b", "e", " ", "X", "D">>,
          <<"T", "a", "b", "l", "e", "a", "u">>,
          <<"P", "o", "w", "e", "r", " ", "B", "I">>>>]>>

\* str.lower() on the characters of the taxonomy and of the inputs
LowerChar(c) ==
    CASE c = "A" -> "a"
      [] c = "B" -> "b"
      [] c = "C" -> "c"
      [] c = "D" -> "d"
      [] c = "E" -> "e"
      [] c = "F" -> "f"
      [] c = "G" -> "g"
      [] c = "H" -> "h"
      [] c = "I" -> "i"
      [] c = "J" -> "j"
      [] c = "K" -> "k"
      [] c = "L" -> "l"
      [] c = "M" -> "m"
      [] c = "N" -> "n"
      [] c = "O" -> "o"
      [] c = "P" -> "p"
      [] c = "Q" -> "q"
      [] c = "R" -> "r"
      [] c = "S" -> "s"
      [] c = "T" -> "t"
      [] c = "U" -> "u"
      [] c = "V" -> "v"
      [] c = "W" -> "w"
      [] c = "X" -> "x"
      [] c = "Y" -> "y"
      [] c = "Z" -> "z"
      [] OTHER -> c

Lower(s) == [i \in 1..Len(s) |-> LowerChar(s[i])]

\* a in b, for strings
IsSubstring(a, b) ==
    \E i \in 0..(Len(b) - Len(a)) : SubSeq(b, i + 1, i + Len(a)) = a

\* the test of the inner loop of categorize_skills
SkillMatches(skill, category_skill) ==
    LET skill_lower == Lower(skill)
    IN  \/ skill_lower = Lower(category_skill)
        \/ IsSubstring(skill_lower, Lower(category_skill))
        \/ IsSubstring(Lower(category_skill), skill_lower)

CategoryMatches(skill, c) ==
    \E j \in 1..Len(SKILL_CATEGORIES[c].skills) : SkillMatches(skill, SKILL_CATEGORIES[c].skills[j])

\* categorized[key].append(skill) on a defaultdict(list)
DictAppend(categorized, key, skill) ==
    DictPut(categorized, key,
            Append(IF key \in DOMAIN categorized THEN categorized[key] ELSE <<>>, skill))

\* the categories of the taxonomy that match the skill, in declaration order
MatchingCategories(skill) ==
    SelectSeq([c \in 1..Len(SKILL_CATEGORIES) |-> c], LAMBDA c : CategoryMatches(skill, c))

\* categorize_skills without the `break`s: a skill goes to every category it matches
RECURSIVE categorize_skills_every_match(_, _, _)
categorize_skills_every_match(skills, categorized, uncategorized) ==
    IF skills = <<>>
    THEN IF uncategorized # <<>> THEN DictPut(categorized, "other", uncategorized)
         ELSE categorized
    ELSE LET skill == Head(skills)
             found == MatchingCategories(skill)
             RECURSIVE put(_, _)
             put(cs, acc) == IF cs = <<>> THEN acc
                             ELSE put(Tail(cs), DictAppend(acc, SKILL_CATEGORIES[Head(cs)].category, skill))
         IN  IF found # <<>>
             THEN categorize_skills_every_match(Tail(skills), put(found, categorized), uncategorized)
             ELSE categorize_skills_every_match(Tail(skills), categorized,
                                                Append(uncategorized, skill))

\* categorize_skills, from the state of its loop over skills: the dict
\* categorized and the list uncategorized
RECURSIVE categorize_skills(_, _, _)
categorize_skills(skills, categorized, uncategorized) ==
    IF skills = <<>>
    THEN IF uncategorized # <<>> THEN DictPut(categorized, "other", uncategorized)
         ELSE categorized
    ELSE LET skill == Head(skills)
             found == MatchingCategories(skill)
         IN  IF found # <<>>
             THEN categorize_skills(Tail(skills),
                                    DictAppend(categorized,
                                               SKILL_CATEGORIES[Head(found)].category, skill),
                                    uncategorized)
             ELSE categorize_skills(Tail(skills), categorized, Append(uncategorized, skill))

SkillLists == UNION {[1..n -> SkillInputs] : n \in 0..MaxSkills}

NoCat == [op |-> "none", skills |-> <<>>, ret |-> <<>>]

\* the arguments of a categorize_skills call
CategorizeCalled ==
    \E skills \in SkillLists : lastCat = [op |-> "call", skills |-> skills, ret |-> <<>>]

\* the categorize_skills call
CategorizeSkills ==
    /\ lastCat.op = "call"
    /\ lastCat' = [op |-> "categorize", skills |-> lastCat.skills,
                   ret |-> categorize_skills(lastCat.skills, <<>>, <<>>)]
    /\ UNCHANGED <<apiVars, sessionVars, today, extractVars, skillVars, upserts, lastReq, lastRet,
                   gen, lastGen>>

NextCategorize == CategorizeSkills

----------------------------------------------------------------------------
(* ResumeGenerator: extract_job_requirements *)

MaxTokens == 5           \* pieces of text in one language-model response

\* A response is a sequence of pieces of text: the characters "{" and "}",
\* "prose" (text without braces that is no JSON), and object members written
\* with the comma they need:
\*   "skills"  "required_skills": ["Go", "SQL"]
\*   "rust"    "required_skills": ["Rust"]
\*   "null"    "required_skills": null
\*   "level"   "experience_level": "senior"
MemberTokens == {"skills", "rust", "null", "level"}
Tokens == {"{", "}", "prose"} \cup MemberTokens
Responses == UNION {[1..n -> Tokens] : n \in 0..MaxTokens}

\* JSON values, tagged with their type: a list of strings, a string, null
\* (Python None)
JsonList(v) == [kind |-> "list", v |-> v]
JsonStr(v) == [kind |-> "str", v |-> <<v>>]
JsonNull == [kind |-> "null", v |-> <<>>]

\* the key and the value a member piece stands for
MemberKey(tok) == IF tok = "level" THEN "experience_level" ELSE "required_skills"
MemberValue(tok) ==
    CASE tok = "skills" -> JsonList(<<"Go", "SQL">>)
      [] tok = "rust"   -> JsonList(<<"Rust">>)
      [] tok = "null"   -> JsonNull
      [] tok = "level"  -> JsonStr("senior")

\* str.find / str.rfind of a one-character string: a 0-based index, or -1
StrFind(s, ch) ==
    IF \E i \in 1..Len(s) : s[i] = ch
    THEN (CHOOSE i \in 1..Len(s) : s[i] = ch /\ \A j \in 1..(i - 1) : s[j] # ch) - 1
    ELSE 0 - 1
StrRFind(s, ch) ==
    IF \E i \in 1..Len(s) : s[i] = ch
    THEN (CHOOSE i \in 1..Len(s) : s[i] = ch /\ \A j \in (i + 1)..Len(s) : s[j] # ch) - 1
    ELSE 0 - 1

\* s[start:stop] for 0 <= start and 0 <= stop
PySlice(s, start, stop) == SubSeq(s, start + 1, Min(stop, Len(s)))

\* the members between the braces of an object, read left to right into a
\* dict; a later member replaces an earlier one with the same key
RECURSIVE json_members(_, _)
json_members(s, acc) ==
    IF s = <<>> THEN [ok |-> TRUE, value |-> acc]
    ELSE IF Head(s) \in MemberTokens
    THEN json_members(Tail(s), DictPut(acc, MemberKey(Head(s)), MemberValue(Head(s))))
    ELSE [ok |-> FALSE, value |-> <<>>]

\* json.loads on a text: it parses when the whole text is one object
json_loads_object(s) ==
    IF Len(s) >= 2 /\ s[1] = "{" /\ s[Len(s)] = "}"
    THEN json_members(SubSeq(s, 2, Len(s) - 1), <<>>)
    ELSE [ok |-> FALSE, value |-> <<>>]

\* _parse_json_response that takes the object ending at the first "}"
parse_json_response_first_close(response) ==
    LET start_idx == StrFind(response, "{")
        end_idx   == StrFind(response, "}")
    IN  IF start_idx # 0 - 1 /\ end_idx # 0 - 1
        THEN LET parsed == json_loads_object(PySlice(response, start_idx, end_idx + 1))
             IN  IF parsed.ok THEN parsed.value ELSE <<>>
        ELSE <<>>

\* _parse_json_response: the text from the first "{" to the last "}" is given
\* to json.loads; {} when a brace is missing and when json.loads raises
parse_json_response(response) ==
    LET start_idx == StrFind(response, "{")
        end_idx   == StrRFind(response, "}")
    IN  IF start_idx # 0 - 1 /\ end_idx # 0 - 1
        THEN LET parsed == json_loads_object(PySlice(response, start_idx, end_idx + 1))
             IN  IF parsed.ok THEN parsed.value ELSE <<>>
        ELSE <<>>

\* dict.get(key, default)
DictGet(data, key, default) == IF key \in DOMAIN data THEN data[key] ELSE default

EmptyRequirements ==
    [required_skills |-> JsonList(<<>>), preferred_skills |-> JsonList(<<>>),
     experience_level |-> JsonStr(""), role_description |-> JsonStr(""),
     responsibilities |-> JsonList(<<>>), qualifications |-> JsonList(<<>>)]

\* extract_job_requirements on the drained stream: the fields are read with
\* their defaults, then the log line takes len(requirements.required_skills),
\* a TypeError for None, which the except turns into the raised Exception
extract_job_requirements(full_response) ==
    LET requirements_data == parse_json_response(full_response)
        requirements ==
            [required_skills  |-> DictGet(requirements_data, "required_skills", JsonList(<<>>)),
             preferred_skills |-> DictGet(requirements_data, "preferred_skills", JsonList(<<>>)),
             experience_level |-> DictGet(requirements_data, "experience_level", JsonStr("")),
             role_description |-> DictGet(requirements_data, "role_description", JsonStr("")),
             responsibilities |-> DictGet(requirements_data, "responsibilities", JsonList(<<>>)),
             qualifications   |-> DictGet(requirements_data, "qualifications", JsonList(<<>>))]
    IN  IF requirements.required_skills.kind = "null"
        THEN [raised |-> TRUE, ret |-> EmptyRequirements]
        ELSE [raised |-> FALSE, ret |-> requirements]

\* the response a call of extract_job_requirements drains from the stream
RequirementsCalled ==
    \E response \in Responses :
        lastReq = [op |-> "call", response |-> response, raised |-> FALSE,
                   ret |-> EmptyRequirements]

\* the extract_job_requirements call
ExtractJobRequirements ==
    /\ lastReq.op = "call"
    /\ \E r \in {extract_job_requirements(lastReq.response)} :
          lastReq' = [op |-> "extract", response |-> lastReq.response, raised |-> r.raised,
                      ret |-> r.ret]
    /\ UNCHANGED <<apiVars, sessionVars, today, extractVars, skillVars, upserts, lastCat, lastRet,
                   gen, lastGen>>

NextRequirements == ExtractJobRequirements

----------------------------------------------------------------------------
(* ResumeGenerator: retrieve_relevant_experiences *)

MaxLimit == 4            \* retrieval is called with limit in 0..MaxLimit
MaxHits == 2             \* objects one collection holds for the query

\* metadata.score of a returned object: a number, or None (scored = FALSE)
Scores == {[scored |-> FALSE, score |-> 0]} \cup {[scored |-> TRUE, score |-> n] : n \in 0..2}

worklog_collection == "VERBA_WorkLog"
chunk_collection == "VERBA_Chunk"

\* the objects of a collection that match the query, as the vector store ranks
\* them
HitLists == UNION {[1..n -> Scores] : n \in 0..MaxHits}

\* what the vector store does for one collection: the collection does not
\* exist, collections.exists raises, the search (collections.get, query.hybrid,
\* query.bm25) raises, or the search answers
CollectionStates ==
    {[state |-> st, hits |-> <<>>] : st \in {"missing", "exists_fails", "search_fails"}}
    \cup {[state |-> "ok", hits |-> h] : h \in HitLists}

\* query.hybrid / query.bm25 with limit: the first `limit` ranked objects
StoreQuery(hits, limit) == SubSeq(hits, 1, Min(limit, Len(hits)))

\* _search_collection: the formatted results, [] when anything in it raises
search_collection(coll, collection_name, limit) ==
    IF coll.state = "search_fails" THEN <<>>
    ELSE LET objects == StoreQuery(coll.hits, limit)
         IN  [i \in 1..Len(objects) |->
                 [id |-> <<collection_name, i>>,
                  score |-> IF objects[i].scored /\ objects[i].score # 0
                            THEN objects[i].score ELSE 0,
                  source |-> collection_name]]

\* list.sort(key=score, reverse=True): stable, highest score first
RECURSIVE InsertByScore(_, _)
InsertByScore(sorted, x) ==
    IF sorted = <<>> THEN <<x>>
    ELSE IF Head(sorted).score >= x.score
    THEN <<Head(sorted)>> \o InsertByScore(Tail(sorted), x)
    ELSE <<x>> \o sorted

RECURSIVE SortByScoreDesc(_)
SortByScoreDesc(xs) ==
    IF xs = <<>> THEN <<>>
    ELSE InsertByScore(SortByScoreDesc(SubSeq(xs, 1, Len(xs) - 1)), xs[Len(xs)])

\* retrieve_relevant_experiences that searches each collection with the whole limit
retrieve_relevant_experiences_whole_limit(worklog, chunk, limit, embed_fails) ==
    IF embed_fails \/ worklog.state = "exists_fails" \/ chunk.state = "exists_fails"
    THEN [raised |-> TRUE, ret |-> <<>>]
    ELSE LET worklog_results == IF worklog.state # "missing"
                                THEN search_collection(worklog, worklog_collection, limit)
                                ELSE <<>>
             chunk_results   == IF chunk.state # "missing"
                                THEN search_collection(chunk, chunk_collection, limit)
                                ELSE <<>>
             experiences     == SortByScoreDesc(worklog_results \o chunk_results)
         IN  [raised |-> FALSE, ret |-> PySlice(experiences, 0, limit)]

\* retrieve_relevant_experiences: the query is vectorized, each collection that
\* exists is searched with limit // 2, the results are merged, sorted and cut
\* to limit; embedder.vectorize and collections.exists are not guarded, so a
\* failure of either is raised as the wrapped Exception
retrieve_relevant_experiences(worklog, chunk, limit, embed_fails) ==
    IF embed_fails THEN [raised |-> TRUE, ret |-> <<>>]
    ELSE IF worklog.state = "exists_fails" THEN [raised |-> TRUE, ret |-> <<>>]
    ELSE LET worklog_results == IF worklog.state # "missing"
                                THEN search_collection(worklog, worklog_collection, limit \div 2)
                                ELSE <<>>
         IN  IF chunk.state = "exists_fails" THEN [raised |-> TRUE, ret |-> <<>>]
             ELSE LET chunk_results == IF chunk.state # "missing"
                                       THEN search_collection(chunk, chunk_collection,
                                                              limit \div 2)
                                       ELSE <<>>
                      experiences   == SortByScoreDesc(worklog_results \o chunk_results)
                  IN  [raised |-> FALSE, ret |-> PySlice(experiences, 0, limit)]

\* the arguments of a retrieve_relevant_experiences call and what the embedder
\* and the vector store will do
RetrievalCalled ==
    \E worklog \in CollectionStates, chunk \in CollectionStates,
       limit \in 0..MaxLimit, embed_fails \in BOOLEAN :
        lastRet = [op |-> "call", worklog |-> worklog, chunk |-> chunk, limit |-> limit,
                   embed_fails |-> embed_fails, raised |-> FALSE, ret |-> <<>>]

\* the retrieve_relevant_experiences call
RetrieveRelevantExperiences ==
    /\ lastRet.op = "call"
    /\ \E r \in {retrieve_relevant_experiences(lastRet.worklog, lastRet.chunk, lastRet.limit,
                                               lastRet.embed_fails)} :
          lastRet' = [lastRet EXCEPT !.op = "retrieve", !.raised = r.raised, !.ret = r.ret]
    /\ UNCHANGED <<apiVars, sessionVars, today, extractVars, skillVars, upserts, lastCat, lastReq,
                   gen, lastGen>>

NextRetrieval == RetrieveRelevantExperiences

----------------------------------------------------------------------------
(* ResumeGenerator: generate_resume and its conversation session *)
(* One call is in flight at a time; the other callers of the SessionStore    *)
(* act between two calls.                                                    *)

MaxGenerateCalls == 2    \* generate_resume calls in one run
MaxChunks == 2           \* chunks with a message in one language-model stream

NoSession == "None"                       \* session_id = None
GenerateSessionIds == {"s1", NoSession, ""}   \* the session_id argument of generate_resume
JobDescriptions == {"jd1", "jd2"}
RoleDescriptions == {"role1"}
Feedbacks == {"None", "fb1"}              \* user_feedback, "None" for None
ChunkMessages == {"", "a"}                \* chunk.get("message"); "" also for a chunk without one

\* `if session_id:` is false for None and for the empty string
Truthy(session_id) == session_id \notin {NoSession, ""}

\* session_exists
session_exists(ss, sid) == sid \in DOMAIN ss

\* get_conversation_history(session_id, format="openai")
get_conversation_history_openai(ss, sid) ==
    IF sid \notin DOMAIN ss THEN <<>>
    ELSE [i \in 1..Len(ss[sid].messages) |->
             [role |-> ss[sid].messages[i].role, content |-> ss[sid].messages[i].content]]

\* _create_refinement_prompt / _create_resume_prompt: the text is determined
\* by the kind of prompt and the arguments it quotes
create_prompt(job_description, user_feedback) ==
    IF user_feedback # "None"
    THEN <<"refinement", user_feedback, job_description>>
    ELSE <<"initial", job_description>>

\* the session part of generate_resume before the stream that creates the
\* session whether or not it exists
generate_begin_recreate(ss, mx, session_id, job_description, role_description, t) ==
    IF ~Truthy(session_id)
    THEN [sessions |-> ss, conversation |-> <<>>]
    ELSE LET created == create_session_overwrite(ss, mx, session_id,
                            {<<"job_description", job_description>>,
                             <<"target_role", role_description>>}, t).sessions
         IN  [sessions |-> created,
              conversation |-> get_conversation_history_openai(created, session_id)]

\* the session part of generate_resume before the stream that records the
\* prompt at once, ahead of the stream
generate_begin_append_user(ss, mx, session_id, job_description, role_description, t) ==
    IF ~Truthy(session_id)
    THEN [sessions |-> ss, conversation |-> <<>>]
    ELSE LET created == create_session(ss, mx, session_id,
                                       {<<"job_description", job_description>>,
                                        <<"target_role", role_description>>}, t).sessions
         IN  [sessions |-> append_message(created, session_id, "user",
                                          create_prompt(job_description, "None"),
                                          {<<"type", "initial">>}, t).sessions,
              conversation |-> get_conversation_history_openai(created, session_id)]

\* the session part of generate_resume before the stream (lines 412-428): the
\* session is created when the id is not known, then the history is read
generate_begin(ss, mx, session_id, job_description, role_description, t) ==
    IF ~Truthy(session_id)
    THEN [sessions |-> ss, conversation |-> <<>>]
    ELSE LET created == IF ~session_exists(ss, session_id)
                        THEN create_session(ss, mx, session_id,
                                            {<<"job_description", job_description>>,
                                             <<"target_role", role_description>>}, t).sessions
                        ELSE ss
         IN  [sessions |-> created,
              conversation |-> get_conversation_history_openai(created, session_id)]

\* the session part of generate_resume after the stream that records only the
\* response
generate_finish_response_only(ss, session_id, prompt, full_response, user_feedback, t) ==
    IF ~Truthy(session_id) THEN ss
    ELSE append_message(ss, session_id, "assistant", full_response,
                        {<<"resume_length", ToString(Len(full_response))>>}, t).sessions

\* the session part of generate_resume after the stream that records only the
\* prompt
generate_finish_user_only(ss, session_id, prompt, full_response, user_feedback, t) ==
    IF ~Truthy(session_id) THEN ss
    ELSE append_message(ss, session_id, "user", prompt,
                        {<<"type", IF user_feedback # "None" THEN "refinement"
                                   ELSE "initial">>}, t).sessions

\* the session part of generate_resume after the stream (lines 462-472):
\* append_user_message, then append_assistant_message
generate_finish(ss, session_id, prompt, full_response, user_feedback, t) ==
    IF ~Truthy(session_id) THEN ss
    ELSE LET with_user ==
                 append_message(ss, session_id, "user", prompt,
                                {<<"type", IF user_feedback # "None" THEN "refinement"
                                           ELSE "initial">>}, t).sessions
         IN  append_message(with_user, session_id, "assistant", full_response,
                            {<<"resume_length", ToString(Len(full_response))>>}, t).sessions

IdleGen ==
    [pc |-> "idle", calls |-> 0, session_id |-> NoSession, user_feedback |-> "None",
     prompt |-> <<>>, conversation |-> <<>>, full_response |-> <<>>]

\* generate_resume is called and runs up to the first chunk of the stream
GenerateBegin ==
    \E session_id \in GenerateSessionIds, job_description \in JobDescriptions,
       role_description \in RoleDescriptions, user_feedback \in Feedbacks :
      \E r \in {generate_begin(sessions, max_exchanges, session_id, job_description,
                               role_description, now)} :
        /\ gen.pc = "idle"
        /\ gen.calls < MaxGenerateCalls
        /\ sessions' = r.sessions
        /\ appended' = [sid \in DOMAIN r.sessions |->
                           IF sid \in DOMAIN appended THEN appended[sid] ELSE <<>>]
        /\ gen' = [pc |-> "streaming", calls |-> gen.calls + 1, session_id |-> session_id,
                   user_feedback |-> user_feedback,
                   prompt |-> create_prompt(job_description, user_feedback),
                   conversation |-> r.conversation, full_response |-> <<>>]
        /\ lastGen' = [op |-> "begin", session_id |-> session_id,
                       job_description |-> job_description,
                       role_description |-> role_description,
                       conversation |-> r.conversation]
        /\ UNCHANGED <<apiVars, max_exchanges, now, lastOp, today, extractVars, skillVars, upserts,
                       lastCat, lastReq, lastRet>>

\* the stream yields one chunk; full_response grows by its message, if any
StreamChunk ==
    \E message \in ChunkMessages :
        /\ gen.pc = "streaming"
        /\ Len(gen.full_response) < MaxChunks
        /\ gen' = [gen EXCEPT !.full_response = IF message # "" THEN Append(@, message) ELSE @]
        /\ lastGen' = [lastGen EXCEPT !.op = "chunk"]
        /\ UNCHANGED <<apiVars, sessionVars, today, extractVars, skillVars, upserts, lastCat, lastReq,
                       lastRet>>

\* the stream raises; generate_resume raises the wrapped Exception
StreamFails ==
    /\ gen.pc = "streaming"
    /\ gen' = [IdleGen EXCEPT !.calls = gen.calls]
    /\ lastGen' = [lastGen EXCEPT !.op = "failed"]
    /\ UNCHANGED <<apiVars, sessionVars, today, extractVars, skillVars, upserts, lastCat, lastReq,
                   lastRet>>

\* the stream ends; the two turns are recorded and the Resume is returned
GenerateFinish ==
    \E ss \in {generate_finish(sessions, gen.session_id, gen.prompt, gen.full_response,
                               gen.user_feedback, now)} :
        /\ gen.pc = "streaming"
        /\ sessions' = ss
        /\ appended' = [sid \in DOMAIN ss |-> IF sid = gen.session_id THEN ss[sid].messages
                                              ELSE appended[sid]]
        /\ gen' = [IdleGen EXCEPT !.calls = gen.calls]
        /\ lastGen' = [lastGen EXCEPT !.op = "finish"]
        /\ UNCHANGED <<apiVars, max_exchanges, now, lastOp, today, extractVars, skillVars, upserts,
                       lastCat, lastReq, lastRet>>

\* between two generate_resume calls the session is reset or deleted through
\* reset_conversation_context / delete_conversation_session
ResetConversationContext == gen.pc = "idle" /\ ResetSession
DeleteConversationSession == gen.pc = "idle" /\ DeleteSession

NextGenerate ==
    \/ GenerateBegin
    \/ StreamChunk
    \/ StreamFails
    \/ GenerateFinish
    \/ ResetConversationContext
    \/ DeleteConversationSession

----------------------------------------------------------------------------
(* ResumeGenerator.format_resume and the export_resume endpoint *)

MaxContent == 2          \* characters of a resume's content

NoContent == <<"None">>                   \* resume.content = None
ContentChars == {"a", "é"}
ResumeContents ==
    {NoContent} \cup UNION {[1..n -> ContentChars] : n \in 0..MaxContent}
TargetFormats ==
    {<<"m", "a", "r", "k", "d", "o", "w", "n">>, <<"M", "a", "r", "k", "d", "o", "w", "n">>,
     <<"p", "d", "f">>, <<"P", "D", "F">>, <<"d", "o", "c", "x">>, <<"h", "t", "m", "l">>}

\* str.encode('utf-8') of one character
Utf8Char(c) == IF c = "é" THEN <<195, 169>> ELSE <<97>>

\* str.encode('utf-8')
RECURSIVE Utf8(_)
Utf8(content) ==
    IF content = <<>> THEN <<>> ELSE Utf8Char(Head(content)) \o Utf8(Tail(content))

NoBytes == <<-1>>
NoError == [class |-> "-", cause |-> "-"]

\* the body of the try block of format_resume (lines 664-679): the bytes, or
\* the class of the exception raised in it
format_resume_try(content, target_format) ==
    IF Lower(target_format) = <<"m", "a", "r", "k", "d", "o", "w", "n">>
    THEN IF content = NoContent THEN [raised |-> TRUE, class |-> "AttributeError", ret |-> NoBytes]
         ELSE [raised |-> FALSE, class |-> "-", ret |-> Utf8(content)]
    ELSE IF Lower(target_format) = <<"p", "d", "f">>
    THEN [raised |-> TRUE, class |-> "NotImplementedError", ret |-> NoBytes]
    ELSE IF Lower(target_format) = <<"d", "o", "c", "x">>
    THEN [raised |-> TRUE, class |-> "NotImplementedError", ret |-> NoBytes]
    ELSE [raised |-> TRUE, class |-> "ValueError", ret |-> NoBytes]

\* format_resume: `except Exception as e: raise Exception(...)` (lines 681-683)
\* replaces whatever the try block raised by a plain Exception whose message
\* quotes str(e)
format_resume(content, target_format) ==
    LET r == format_resume_try(content, target_format)
    IN  IF r.raised
        THEN [raised |-> TRUE, exc |-> [class |-> "Exception", cause |-> r.class],
              ret |-> NoBytes]
        ELSE [raised |-> FALSE, exc |-> NoError, ret |-> r.ret]

\* the status export_resume answers with (api.py lines 2244-2355). The
\* arguments of its format_resume call are evaluated first, and payload.author
\* is not a field of ExportResumePayload: the AttributeError reaches
\* `except Exception`.
export_resume(demo, connected, id_matches, found) ==
    IF demo THEN 403
    ELSE IF ~connected THEN 500
    ELSE IF ~id_matches THEN 400
    ELSE IF ~found THEN 404
    ELSE 500

\* the arguments a format_resume / export_resume call is made with
FormatCalled ==
    \E content \in ResumeContents, target_format \in TargetFormats :
        lastFmt = [op |-> "call", content |-> content, target_format |-> target_format,
                   raised |-> FALSE, exc |-> NoError, ret |-> NoBytes, status |-> 0]

\* the format_resume call
FormatResume ==
    \E r \in {format_resume(lastFmt.content, lastFmt.target_format)} :
        /\ lastFmt.op = "call"
        /\ lastFmt' = [lastFmt EXCEPT !.op = "format", !.raised = r.raised, !.exc = r.exc,
                                      !.ret = r.ret]
        /\ UNCHANGED <<raceVars, clientVars, run, trackerVars, sessionVars, today, extractVars, skillVars, pipelineVars>>

\* the export_resume request for a stored resume with that content
ExportResume ==
    \E demo \in BOOLEAN, connected \in BOOLEAN, id_matches \in BOOLEAN, found \in BOOLEAN :
        /\ lastFmt.op = "call"
        /\ lastFmt.content # NoContent
        /\ lastFmt' = [lastFmt EXCEPT !.op = "export",
                                      !.status = export_resume(demo, connected, id_matches, found)]
        /\ UNCHANGED <<raceVars, clientVars, run, trackerVars, sessionVars, today, extractVars, skillVars, pipelineVars>>

NextFormat ==
    \/ FormatResume
    \/ ExportResume

----------------------------------------------------------------------------
(* The generation run of the generate_resume and regenerate_resume endpoints *)

Endpoints == {"generate", "regenerate"}
Stages == <<"REQUIREMENTS_EXTRACTED", "EXPERIENCES_RETRIEVED", "RESUME_GENERATED", "PERSISTED">>

\* what the language model answers to the extraction prompt of a run
RunResponses ==
    {<<>>, <<"prose">>, <<"{", "skills", "}">>, <<"{", "null", "}">>,
     <<"prose", "{", "skills", "rust", "}">>}

\* the `except Exception as e` of an endpoint: status 500 and the error text
\* "Failed to generate resume: " / "Failed to regenerate resume: " + str(e)
EndpointError(endpoint, cause) ==
    IF endpoint = "generate" THEN <<"Failed to generate resume">> \o cause
    ELSE <<"Failed to regenerate resume">> \o cause

RunEnded(r, status, error) == [r EXCEPT !.pc = "done", !.status = status, !.error = error]

\* the request an endpoint is called with; regenerate_resume takes the job
\* description from the stored record and passes no session id
RunCalled ==
    \E endpoint \in Endpoints, demo \in BOOLEAN, job_description \in JobDescriptions,
       session_id \in GenerateSessionIds :
        /\ endpoint = "regenerate" => session_id = NoSession
        /\ run = [endpoint |-> endpoint, demo |-> demo, job_description |-> job_description,
                  session_id |-> session_id, pc |-> "connect", stages |-> <<>>,
                  requirements |-> EmptyRequirements, status |-> 0, error |-> <<>>,
                  saved |-> FALSE]

\* `if production == "Demo"`, then `await client_manager.connect(...)`
RunConnect ==
    \E connected \in BOOLEAN :
        /\ run.pc = "connect"
        /\ run' = IF run.demo
                  THEN RunEnded(run, 403, <<"disabled in Demo mode">>)
                  ELSE IF ~connected
                  THEN RunEnded(run, 500, EndpointError(run.endpoint, <<"connect">>))
                  ELSE [run EXCEPT !.pc = IF run.endpoint = "generate" THEN "config"
                                          ELSE "original"]
        /\ UNCHANGED <<raceVars, clientVars, lastFmt, trackerVars, sessionVars, today, extractVars, skillVars, pipelineVars>>

\* regenerate_resume: the id check and `await resume_tracker.get_resume_by_id`
RunGetOriginal ==
    \E id_matches \in BOOLEAN, outcome \in {"found", "none", "raises"} :
        /\ run.pc = "original"
        /\ run' = IF ~id_matches
                  THEN RunEnded(run, 400, <<"Resume ID in URL does not match payload">>)
                  ELSE IF outcome = "raises"
                  THEN RunEnded(run, 500, EndpointError(run.endpoint,
                                              <<"Failed to retrieve resume record">>))
                  ELSE IF outcome = "none"
                  THEN RunEnded(run, 404, <<"Resume not found">>)
                  ELSE [run EXCEPT !.pc = "config"]
        /\ UNCHANGED <<raceVars, clientVars, lastFmt, trackerVars, sessionVars, today, extractVars, skillVars, pipelineVars>>

\* `await manager.load_rag_config(client)`
RunLoadConfig ==
    \E loaded \in BOOLEAN :
        /\ run.pc = "config"
        /\ run' = IF loaded THEN [run EXCEPT !.pc = "extract"]
                  ELSE RunEnded(run, 500, EndpointError(run.endpoint, <<"load_rag_config">>))
        /\ UNCHANGED <<raceVars, clientVars, lastFmt, trackerVars, sessionVars, today, extractVars, skillVars, pipelineVars>>

\* Step 1, `await resume_generator.extract_job_requirements(...)`: the stream
\* raises, or it is drained and the response is parsed
RunExtractRequirements ==
    \E stream_fails \in BOOLEAN, response \in RunResponses :
        /\ run.pc = "extract"
        /\ run' = IF stream_fails \/ extract_job_requirements(response).raised
                  THEN RunEnded(run, 500, EndpointError(run.endpoint,
                                              <<"Failed to extract job requirements">>))
                  ELSE [run EXCEPT !.pc = "retrieve", !.stages = Append(@, Stages[1]),
                                   !.requirements = extract_job_requirements(response).ret]
        /\ UNCHANGED <<raceVars, clientVars, lastFmt, trackerVars, sessionVars, today, extractVars, skillVars, pipelineVars>>

\* Step 2, the call of retrieve_relevant_experiences: its arguments are
\* evaluated first, and payload.limit is a field of neither
\* GenerateResumePayload nor RegenerateResumePayload, so the AttributeError
\* reaches the endpoint's `except Exception` before the call is made
RunRetrieveExperiences ==
    /\ run.pc = "retrieve"
    /\ run' = RunEnded(run, 500, EndpointError(run.endpoint,
                                     <<"object has no attribute 'limit'">>))
    /\ UNCHANGED <<raceVars, clientVars, lastFmt, trackerVars, sessionVars, today, extractVars, skillVars, pipelineVars>>

NextRun ==
    \/ RunConnect
    \/ RunGetOriginal
    \/ RunLoadConfig
    \/ RunExtractRequirements
    \/ RunRetrieveExperiences

----------------------------------------------------------------------------
(* ResumeTracker (the ResumeHistoryStore) and its endpoints *)

MaxTrackerCalls == 3     \* ResumeTracker calls in one run

ResumeIds == {"r1", "r2"}
ResumeTexts == {"c1", "c2"}
NoRecord == "None"

\* what a caller can tell a result by: whether the call raised, the class of
\* the exception, and the value returned
TrackerReturned(ret) == [raised |-> FALSE, class |-> "-", message |-> <<>>, ret |-> ret]
TrackerRaised(message) ==
    [raised |-> TRUE, class |-> "Exception", message |-> message, ret |-> NoRecord]

\* get_resume_by_id; unavailable: an awaited vector-store call raises
get_resume_by_id(store, resume_id, unavailable) ==
    IF unavailable
    THEN TrackerRaised(<<"Failed to retrieve resume record", "unavailable">>)
    ELSE IF ~store.exists
    THEN TrackerRaised(<<"Failed to retrieve resume record", "Collection does not exist">>)
    ELSE IF resume_id \notin DOMAIN store.records
    THEN TrackerReturned(NoRecord)
    ELSE TrackerReturned(store.records[resume_id])

\* delete_resume_record; the result and the records left
delete_resume_record(store, resume_id, unavailable) ==
    IF unavailable
    THEN [res |-> TrackerRaised(<<"Failed to delete resume record", "unavailable">>),
          records |-> store.records]
    ELSE IF ~store.exists
    THEN [res |-> TrackerRaised(<<"Failed to delete resume record", "Collection does not exist">>),
          records |-> store.records]
    ELSE IF resume_id \notin DOMAIN store.records
    THEN [res |-> TrackerRaised(<<"Failed to delete resume record", "Resume record not found">>),
          records |-> store.records]
    ELSE [res |-> TrackerReturned("True"), records |-> DictDel(store.records, resume_id)]

\* update_resume_record with a new resume_content
update_resume_record(store, resume_id, resume_content, unavailable) ==
    IF unavailable
    THEN [res |-> TrackerRaised(<<"Failed to update resume record", "unavailable">>),
          records |-> store.records]
    ELSE IF ~store.exists
    THEN [res |-> TrackerRaised(<<"Failed to update resume record", "Collection does not exist">>),
          records |-> store.records]
    ELSE IF resume_id \notin DOMAIN store.records
    THEN [res |-> TrackerRaised(<<"Failed to update resume record", "Resume record not found">>),
          records |-> store.records]
    ELSE [res |-> TrackerReturned(resume_content),
          records |-> DictPut(store.records, resume_id, resume_content)]

\* save_resume_record; new_id is the uuid the store assigns
save_resume_record(store, new_id, resume_content, unavailable) ==
    IF unavailable
    THEN [res |-> TrackerRaised(<<"Failed to save resume record", "unavailable">>),
          records |-> store.records]
    ELSE IF ~store.exists
    THEN [res |-> TrackerRaised(<<"Failed to save resume record", "Collection does not exist">>),
          records |-> store.records]
    ELSE [res |-> TrackerReturned(resume_content),
          records |-> DictPut(store.records, new_id, resume_content)]

\* the status the get_resume_by_id and delete_resume endpoints answer with:
\* None / a false result give 404, an exception gives 500
get_resume_status(res) ==
    IF res.raised THEN 500 ELSE IF res.ret = NoRecord THEN 404 ELSE 200
delete_resume_status(res) ==
    IF res.raised THEN 500 ELSE IF res.ret # "True" THEN 404 ELSE 200

TrackerStep(op, resume_id, unavailable, res, status) ==
    [op |-> op, resume_id |-> resume_id, unavailable |-> unavailable,
     missing |-> resume_store.exists /\ ~unavailable /\ resume_id \notin DOMAIN resume_store.records,
     res |-> res, status |-> status, calls |-> lastTrk.calls + 1]

SaveResumeRecord ==
    \E new_id \in ResumeIds \ DOMAIN resume_store.records, resume_content \in ResumeTexts,
       unavailable \in BOOLEAN :
      \E r \in {save_resume_record(resume_store, new_id, resume_content, unavailable)} :
        /\ lastTrk.calls < MaxTrackerCalls
        /\ resume_store' = [resume_store EXCEPT !.records = r.records]
        /\ lastTrk' = [TrackerStep("save", new_id, unavailable, r.res, 0) EXCEPT !.missing = FALSE]
        /\ UNCHANGED <<raceVars, clientVars, lastFmt, run, sessionVars, today, extractVars, skillVars, pipelineVars>>

GetResumeById ==
    \E resume_id \in ResumeIds, unavailable \in BOOLEAN :
      \E r \in {get_resume_by_id(resume_store, resume_id, unavailable)} :
        /\ lastTrk.calls < MaxTrackerCalls
        /\ lastTrk' = TrackerStep("get", resume_id, unavailable, r, get_resume_status(r))
        /\ UNCHANGED <<raceVars, clientVars, resume_store, lastFmt, run, sessionVars, today, extractVars, skillVars,
                       pipelineVars>>

DeleteResumeRecord ==
    \E resume_id \in ResumeIds, unavailable \in BOOLEAN :
      \E r \in {delete_resume_record(resume_store, resume_id, unavailable)} :
        /\ lastTrk.calls < MaxTrackerCalls
        /\ resume_store' = [resume_store EXCEPT !.records = r.records]
        /\ lastTrk' = TrackerStep("delete", resume_id, unavailable, r.res,
                                  delete_resume_status(r.res))
        /\ UNCHANGED <<raceVars, clientVars, lastFmt, run, sessionVars, today, extractVars, skillVars, pipelineVars>>

UpdateResumeRecord ==
    \E resume_id \in ResumeIds, resume_content \in ResumeTexts, unavailable \in BOOLEAN :
      \E r \in {update_resume_record(resume_store, resume_id, resume_content, unavailable)} :
        /\ lastTrk.calls < MaxTrackerCalls
        /\ resume_store' = [resume_store EXCEPT !.records = r.records]
        /\ lastTrk' = TrackerStep("update", resume_id, unavailable, r.res, 0)
        /\ UNCHANGED <<raceVars, clientVars, lastFmt, run, sessionVars, today, extractVars, skillVars, pipelineVars>>

NextTracker ==
    \/ SaveResumeRecord
    \/ GetResumeById
    \/ DeleteResumeRecord
    \/ UpdateResumeRecord

NoTrackerStep ==
    [op |-> "none", resume_id |-> "-", unavailable |-> FALSE, missing |-> FALSE,
     res |-> TrackerReturned(NoRecord), status |-> 0, calls |-> 0]

\* the collection VERBA_ResumeRecord exists or not, and holds no record yet
TrackerStarted ==
    /\ resume_store \in [exists : BOOLEAN, records : {<<>>}]
    /\ lastTrk = NoTrackerStep

----------------------------------------------------------------------------
(* ResumeGenerator: generate_resume calls that overlap on one store *)
(* A call is suspended only while it waits for the next chunk of its stream; *)
(* the other callers and the session endpoints run at these points.          *)

MaxRunsPerCaller == 1    \* generate_resume calls one caller makes
MaxRaceChunks == 1       \* chunks with a message in one stream of an overlapping call

GenCallers == {"g1", "g2"}
\* each caller asks for another job, so that a prompt tells the caller
CallerJob(p) == IF p = "g1" THEN "jd1" ELSE "jd2"
RaceSessionId == "s1"

IdleRun == [IdleGen EXCEPT !.calls = 0]

\* the call starts: the session is looked up or created and its history read,
\* then the first chunk is awaited
RaceBegin(p) ==
    \E r \in {generate_begin(sessions, max_exchanges, RaceSessionId, CallerJob(p), "role1", now)} :
        /\ gens[p].pc = "idle"
        /\ gens[p].calls < MaxRunsPerCaller
        /\ sessions' = r.sessions
        /\ appended' = [sid \in DOMAIN r.sessions |->
                           IF sid \in DOMAIN appended THEN appended[sid] ELSE <<>>]
        /\ gens' = [gens EXCEPT ![p] =
                      [pc |-> "streaming", calls |-> gens[p].calls + 1,
                       session_id |-> RaceSessionId, user_feedback |-> "None",
                       prompt |-> create_prompt(CallerJob(p), "None"),
                       conversation |-> r.conversation, full_response |-> <<>>]]
        /\ UNCHANGED <<max_exchanges, now, lastOp, completed>>

\* a chunk with a message arrives
RaceChunk(p) ==
    /\ gens[p].pc = "streaming"
    /\ Len(gens[p].full_response) < MaxRaceChunks
    /\ gens' = [gens EXCEPT ![p].full_response = Append(@, "a")]
    /\ UNCHANGED <<sessionVars, completed>>

\* the stream raises
RaceFails(p) ==
    /\ gens[p].pc = "streaming"
    /\ gens' = [gens EXCEPT ![p] = [IdleGen EXCEPT !.calls = gens[p].calls]]
    /\ UNCHANGED <<sessionVars, completed>>

\* the stream ends: both turns are appended and the Resume is returned, with
\* no suspension point in between
RaceFinish(p) ==
    \E ss \in {generate_finish(sessions, gens[p].session_id, gens[p].prompt,
                               gens[p].full_response, gens[p].user_feedback, now)} :
        /\ gens[p].pc = "streaming"
        /\ sessions' = ss
        /\ appended' = [sid \in DOMAIN ss |-> IF sid = gens[p].session_id THEN ss[sid].messages
                                              ELSE appended[sid]]
        /\ gens' = [gens EXCEPT ![p] = [IdleGen EXCEPT !.calls = gens[p].calls]]
        /\ completed' = Append(completed, [returned |-> TRUE,
                                           prompt |-> gens[p].prompt,
                                           shown |-> Len(gens[p].conversation),
                                           full_response |-> gens[p].full_response])
        /\ UNCHANGED <<max_exchanges, now, lastOp>>

notRace == <<today, extractVars, skillVars, pipelineVars, lastFmt, run, trackerVars, clientVars>>

GenerateBeginsOverlapped == (\E p \in GenCallers : RaceBegin(p)) /\ UNCHANGED notRace
StreamChunkOverlapped == (\E p \in GenCallers : RaceChunk(p)) /\ UNCHANGED notRace
StreamFailsOverlapped == (\E p \in GenCallers : RaceFails(p)) /\ UNCHANGED notRace
GenerateFinishOverlapped == (\E p \in GenCallers : RaceFinish(p)) /\ UNCHANGED notRace

\* the reset and delete endpoints are served while calls are suspended
ResetSessionOverlapped ==
    \E r \in {reset_session(sessions, RaceSessionId, now)} :
        /\ sessions' = r.sessions
        /\ appended' = IF r.ret THEN [appended EXCEPT ![RaceSessionId] = <<>>] ELSE appended
        /\ lastOp' = [op |-> "reset", sid |-> RaceSessionId, arg |-> {}, ret |-> r.ret]
        /\ UNCHANGED <<max_exchanges, now, raceVars, notRace>>
DeleteSessionOverlapped ==
    \E r \in {delete_session(sessions, RaceSessionId)} :
        /\ sessions' = r.sessions
        /\ appended' = [x \in DOMAIN r.sessions |-> appended[x]]
        /\ lastOp' = [op |-> "delete", sid |-> RaceSessionId, arg |-> {}, ret |-> r.ret]
        /\ UNCHANGED <<max_exchanges, now, raceVars, notRace>>

NextGenerateRace ==
    \/ GenerateBeginsOverlapped
    \/ StreamChunkOverlapped
    \/ StreamFailsOverlapped
    \/ GenerateFinishOverlapped
    \/ ResetSessionOverlapped
    \/ DeleteSessionOverlapped

----------------------------------------------------------------------------
(* ClientManager: connect and clean_up *)
(* connect gives up control while it waits for the lock of its credentials   *)
(* hash and while it awaits manager.connect; clean_up gives up control at    *)
(* each is_ready and at each disconnect.                                     *)

MaxConnectCalls == 1     \* connect calls made by one caller
MaxCleanUps == 1         \* clean_up calls of a run
max_time == 10           \* ClientManager.max_time, in minutes

\* the instants datetime.now() is read at, in minutes
MinutePoints == <<0, 11>>

CredHashes == {"h1", "h2"}
ConnCallers == {"c1", "c2", "c3"}

\* what `await self.manager.connect(_credentials, port)` gives
ConnectOutcomes == {"client", "none", "raises"}

IdleConn == [pc |-> "idle", calls |-> 0, cred_hash |-> "-", client |-> 0, waited |-> FALSE]

IdleCleanUp == [pc |-> "idle", calls |-> 0, current_time |-> 0, size |-> 0, pos |-> 0,
                cred_hash |-> "-", clients_to_remove |-> <<>>, idx |-> 0,
                removed |-> <<>>, before |-> <<>>, error |-> "-"]

notClients == <<sessionVars, today, extractVars, skillVars, pipelineVars, lastFmt, run,
                trackerVars, raceVars>>

\* cred_hash in self.clients
HasClient(cl, cred_hash) == \E i \in 1..Len(cl) : cl[i].cred_hash = cred_hash

\* self.clients[cred_hash]["client"]
ClientOf(cl, cred_hash) == cl[CHOOSE i \in 1..Len(cl) : cl[i].cred_hash = cred_hash].client

\* self.clients[cred_hash] = {"client": client, "timestamp": datetime.now()}: a
\* new key goes to the end of the dict, a key it holds keeps its place
SetClient(cl, cred_hash, client, t) ==
    LET entry == [cred_hash |-> cred_hash, client |-> client, timestamp |-> t]
    IN  IF HasClient(cl, cred_hash)
        THEN [i \in 1..Len(cl) |-> IF cl[i].cred_hash = cred_hash THEN entry ELSE cl[i]]
        ELSE Append(cl, entry)

\* del self.clients[cred_hash]
DelClient(cl, cred_hash) == SelectSeq(cl, LAMBDA c : c.cred_hash # cred_hash)

\* a variant that makes a new lock on every call
get_or_create_lock_fresh(lks, cred_hash) == [lks EXCEPT ![cred_hash] = "free"]

\* the locks after get_or_create_lock(cred_hash)
get_or_create_lock(lks, cred_hash) ==
    IF lks[cred_hash] = "absent" THEN [lks EXCEPT ![cred_hash] = "free"] ELSE lks

\* leaving `async with lock`
Release(lks, p, cred_hash) ==
    IF lks[cred_hash] = p THEN [lks EXCEPT ![cred_hash] = "free"] ELSE lks

\* the body of `async with lock` up to its first await: an existing client is
\* returned at once, else the caller keeps the lock and awaits manager.connect
EnterLock(p, lks, cred_hash, calls, waited) ==
    IF HasClient(clients, cred_hash)
    THEN /\ conns' = [conns EXCEPT ![p] = [pc |-> "returned", calls |-> calls,
                                           cred_hash |-> cred_hash,
                                           client |-> ClientOf(clients, cred_hash),
                                           waited |-> waited]]
         /\ locks' = lks
    ELSE /\ conns' = [conns EXCEPT ![p] = [pc |-> "connecting", calls |-> calls,
                                           cred_hash |-> cred_hash, client |-> 0,
                                           waited |-> waited]]
         /\ locks' = [lks EXCEPT ![cred_hash] = p]

\* connect is called: the hash, the lock, and `async with lock` when it is free
ConnectCall(p) ==
    \E cred_hash \in CredHashes :
        LET lks == get_or_create_lock(locks, cred_hash)
        IN  /\ conns[p].pc \in {"idle", "returned", "raised"}
            /\ conns[p].calls < MaxConnectCalls
            /\ IF lks[cred_hash] = "free"
               THEN EnterLock(p, lks, cred_hash, conns[p].calls + 1, FALSE)
               ELSE /\ conns' = [conns EXCEPT ![p] = [pc |-> "waiting",
                                                      calls |-> @.calls + 1,
                                                      cred_hash |-> cred_hash,
                                                      client |-> 0, waited |-> TRUE]]
                    /\ locks' = lks
            /\ UNCHANGED <<clients, opened, cleanup, minutes, notClients>>

\* a waiting caller gets the lock
ConnectAcquire(p) ==
    /\ conns[p].pc = "waiting"
    /\ locks[conns[p].cred_hash] = "free"
    /\ EnterLock(p, locks, conns[p].cred_hash, conns[p].calls, TRUE)
    /\ UNCHANGED <<clients, opened, cleanup, minutes, notClients>>

\* manager.connect is over: the client is stored and returned, or the call raises
ConnectOpened(p) ==
    \E outcome \in ConnectOutcomes :
        LET c == conns[p]
            client == Len(opened) + 1
        IN  /\ c.pc = "connecting"
            /\ IF outcome = "client"
               THEN /\ clients' = SetClient(clients, c.cred_hash, client, minutes)
                    /\ opened' = Append(opened, c.cred_hash)
                    /\ conns' = [conns EXCEPT ![p] = [c EXCEPT !.pc = "returned",
                                                               !.client = client]]
               ELSE /\ conns' = [conns EXCEPT ![p] = [c EXCEPT !.pc = "raised"]]
                    /\ UNCHANGED <<clients, opened>>
            /\ locks' = Release(locks, p, c.cred_hash)
            /\ UNCHANGED <<cleanup, minutes, notClients>>

\* time_difference.total_seconds() / 60 > self.max_time
Expired(entry, current_time) == current_time - entry.timestamp > max_time

\* the first loop takes the item at place pos: the age test, then the await of
\* is_ready
VisitClient(c, pos) ==
    [c EXCEPT !.pc = "is_ready", !.pos = pos, !.cred_hash = clients[pos].cred_hash,
              !.clients_to_remove = IF Expired(clients[pos], c.current_time)
                                    THEN Append(@, clients[pos].cred_hash)
                                    ELSE @]

\* the second loop at place idx of clients_to_remove: self.clients[cred_hash]
\* is read before the await of disconnect
RemoveClient(c, cl, idx) ==
    IF idx > Len(c.clients_to_remove)
    THEN [c EXCEPT !.pc = "done", !.idx = idx]
    ELSE IF ~HasClient(cl, c.clients_to_remove[idx])
         THEN [c EXCEPT !.pc = "raised", !.idx = idx, !.error = "KeyError"]
         ELSE [c EXCEPT !.pc = "disconnect", !.idx = idx]

\* clean_up is called
CleanUpCall ==
    LET c == [IdleCleanUp EXCEPT !.calls = cleanup.calls + 1, !.current_time = minutes,
                                 !.size = Len(clients), !.before = clients]
    IN  /\ cleanup.pc \in {"idle", "done", "raised"}
        /\ cleanup.calls < MaxCleanUps
        /\ cleanup' = IF clients = <<>> THEN RemoveClient(c, clients, 1)
                      ELSE VisitClient(c, 1)
        /\ UNCHANGED <<clients, locks, conns, opened, minutes, notClients>>

\* is_ready answers; the dict iterator then gives the next item, ends the loop,
\* or raises because the dict changed size
CleanUpIsReady ==
    \E ready \in BOOLEAN :
        LET c == [cleanup EXCEPT !.clients_to_remove =
                                     IF ready THEN @ ELSE Append(@, cleanup.cred_hash)]
        IN  /\ cleanup.pc = "is_ready"
            /\ cleanup' = IF Len(clients) # c.size
                          THEN [c EXCEPT !.pc = "raised", !.error = "RuntimeError"]
                          ELSE IF c.pos = c.size
                               THEN RemoveClient(c, clients, 1)
                               ELSE VisitClient(c, c.pos + 1)
            /\ UNCHANGED <<clients, locks, conns, opened, minutes, notClients>>

\* disconnect is over: del self.clients[cred_hash], then the next hash
CleanUpDisconnected ==
    LET cred_hash == cleanup.clients_to_remove[cleanup.idx]
    IN  /\ cleanup.pc = "disconnect"
        /\ IF HasClient(clients, cred_hash)
           THEN /\ clients' = DelClient(clients, cred_hash)
                /\ cleanup' = RemoveClient([cleanup EXCEPT !.removed = Append(@, cred_hash)],
                                           clients', cleanup.idx + 1)
           ELSE /\ cleanup' = [cleanup EXCEPT !.pc = "raised", !.error = "KeyError"]
                /\ UNCHANGED clients
        /\ UNCHANGED <<locks, conns, opened, minutes, notClients>>

\* time passes
NextMinute ==
    /\ \E i \in 1..(Len(MinutePoints) - 1) :
          minutes = MinutePoints[i] /\ minutes' = MinutePoints[i + 1]
    /\ UNCHANGED <<clients, locks, conns, opened, cleanup, notClients>>

ConnectCalled == \E p \in ConnCallers : ConnectCall(p)
ConnectAcquired == \E p \in ConnCallers : ConnectAcquire(p)
ConnectReturned == \E p \in ConnCallers : ConnectOpened(p)

NextConnect ==
    \/ ConnectCalled
    \/ ConnectAcquired
    \/ ConnectReturned

NextCleanUp ==
    \/ ConnectCalled
    \/ ConnectAcquired
    \/ ConnectReturned
    \/ CleanUpCall
    \/ CleanUpIsReady
    \/ CleanUpDisconnected
    \/ NextMinute

----------------------------------------------------------------------------
(* Initial values of the history variables and of the parts at rest *)

NoReq == [op |-> "none"]
NoRet == [op |-> "none"]
NoGenStep == [op |-> "none"]

UpsertRaceIdle == upserts = <<>>
CategorizeIdle == lastCat = NoCat
RequirementsIdle == lastReq = NoReq
RetrievalIdle == lastRet = NoRet
GenerateIdle == gen = IdleGen /\ lastGen = NoGenStep

FormatIdle == lastFmt = [op |-> "none"]

RunIdle == run = [pc |-> "idle"]

TrackerIdle == resume_store = [exists |-> TRUE, records |-> <<>>] /\ lastTrk = NoTrackerStep

GenerateRaceIdle == gens = <<>> /\ completed = <<>>

ClientsIdle ==
    /\ clients = <<>>
    /\ locks = <<>>
    /\ conns = <<>>
    /\ opened = <<>>
    /\ cleanup = [pc |-> "idle"]
    /\ minutes = 0

ApiIdle ==
    /\ FormatIdle
    /\ RunIdle
    /\ TrackerIdle
    /\ GenerateRaceIdle
    /\ ClientsIdle

PipelineIdle ==
    /\ UpsertRaceIdle
    /\ CategorizeIdle
    /\ RequirementsIdle
    /\ RetrievalIdle
    /\ GenerateIdle

----------------------------------------------------------------------------
(* Specifications *)

InitSession == InitSessionStore /\ SkillsIdle /\ PipelineIdle /\ ApiIdle
SpecSession == InitSession /\ [][NextSession]_vars

InitExtract == SessionIdle /\ InitSkills /\ skill_exists = TRUE /\ PipelineIdle /\ ApiIdle
SpecExtract == InitExtract /\ [][NextExtract]_vars

InitSkillStore == SessionIdle /\ InitSkills /\ cache_exists = TRUE /\ PipelineIdle /\ ApiIdle
SpecSkills == InitSkillStore /\ [][NextSkills]_vars

SpecUpsert == InitSkillStore /\ [][NextUpsert]_vars

InitUpsertRace ==
    /\ ApiIdle
    /\ SessionIdle /\ SkillsIdle
    /\ CategorizeIdle /\ RequirementsIdle /\ RetrievalIdle /\ GenerateIdle
    /\ upserts = [p \in Callers |-> IdleCaller]
SpecUpsertRace == InitUpsertRace /\ [][NextUpsertRace]_vars

InitRequirements ==
    /\ ApiIdle
    /\ SessionIdle /\ SkillsIdle
    /\ UpsertRaceIdle /\ CategorizeIdle /\ RetrievalIdle /\ GenerateIdle
    /\ RequirementsCalled
SpecRequirements == InitRequirements /\ [][NextRequirements]_vars

InitRetrieval ==
    /\ ApiIdle
    /\ SessionIdle /\ SkillsIdle
    /\ UpsertRaceIdle /\ CategorizeIdle /\ RequirementsIdle /\ GenerateIdle
    /\ RetrievalCalled
SpecRetrieval == InitRetrieval /\ [][NextRetrieval]_vars

InitGenerate ==
    /\ ApiIdle
    /\ InitSessionStore /\ SkillsIdle
    /\ UpsertRaceIdle /\ CategorizeIdle /\ RequirementsIdle /\ RetrievalIdle /\ GenerateIdle
SpecGenerate == InitGenerate /\ [][NextGenerate]_vars

InitFormat ==
    /\ SessionIdle /\ SkillsIdle /\ PipelineIdle /\ RunIdle /\ TrackerIdle /\ GenerateRaceIdle /\ ClientsIdle
    /\ FormatCalled
SpecFormat == InitFormat /\ [][NextFormat]_vars

InitRun ==
    /\ SessionIdle /\ SkillsIdle /\ PipelineIdle /\ FormatIdle /\ TrackerIdle /\ GenerateRaceIdle /\ ClientsIdle
    /\ RunCalled
SpecRun == InitRun /\ [][NextRun]_vars

InitTracker ==
    /\ SessionIdle /\ SkillsIdle /\ PipelineIdle /\ FormatIdle /\ RunIdle /\ GenerateRaceIdle /\ ClientsIdle
    /\ TrackerStarted
SpecTracker == InitTracker /\ [][NextTracker]_vars

InitGenerateRace ==
    /\ max_exchanges \in 1..MaxExchangesBound
    /\ sessions = <<>> /\ now = 0 /\ appended = <<>> /\ lastOp = NoOp
    /\ SkillsIdle /\ PipelineIdle
    /\ FormatIdle /\ RunIdle /\ TrackerIdle /\ ClientsIdle
    /\ gens = [p \in GenCallers |-> IdleRun]
    /\ completed = <<>>
SpecGenerateRace ==
    InitGenerateRace /\ [][NextGenerateRace]_vars /\ WF_vars(NextGenerateRace)

InitCategorize ==
    /\ ApiIdle
    /\ SessionIdle /\ SkillsIdle
    /\ UpsertRaceIdle /\ RequirementsIdle /\ RetrievalIdle /\ GenerateIdle
    /\ CategorizeCalled
SpecCategorize == InitCategorize /\ [][NextCategorize]_vars

----------------------------------------------------------------------------
(* SessionStore claims *)

\* C1 (as claimed): in every reachable state every session holds at most
\* 2 * max_exchanges messages, for every max_exchanges >= 0 including 0.
C1_WindowInvariant ==
    \A sid \in DOMAIN sessions :
        Len(sessions[sid].messages) <= 2 * sessions[sid].max_exchanges

\* C2 (as claimed): the stored messages of a session are the last
\* min(k, 2 * max_exchanges) of the k messages appended since its creation or
\* last reset, in append order.
C2_SlidingWindowContent ==
    \A sid \in DOMAIN sessions :
        LET k    == Len(appended[sid])
            keep == Min(k, 2 * sessions[sid].max_exchanges)
        IN  sessions[sid].messages = SubSeq(appended[sid], k - keep + 1, k)

\* C3: create with an explicit id that already exists returns that id and
\* leaves the whole store, so the existing session's messages, metadata,
\* created_at and max_exchanges, as it was.
C3_IdempotentCreate ==
    [][(lastOp'.op = "create" /\ lastOp'.sid \in DOMAIN sessions)
         => (lastOp'.ret = lastOp'.sid /\ sessions' = sessions)]_vars

\* a create was just called on a session that holds messages, was created
\* earlier, and whose metadata differs from the call's metadata argument
C3_Witness ==
    /\ lastOp.op = "create"
    /\ lastOp.sid \in DOMAIN sessions
    /\ Len(sessions[lastOp.sid].messages) > 0
    /\ sessions[lastOp.sid].created_at < now
    /\ sessions[lastOp.sid].metadata # OrEmptyDict(lastOp.arg)

\* C4: append on an absent session id, or with a role other than user /
\* assistant, returns false and leaves the whole store unchanged.
C4_AppendRejects ==
    [][(/\ lastOp'.op = "append"
        /\ \/ lastOp'.sid \notin DOMAIN sessions
           \/ lastOp'.arg \cap ValidRoles = {})
         => (lastOp'.ret = FALSE /\ sessions' = sessions)]_vars

\* an append with an invalid role was just refused on an existing session that
\* holds messages, at a time later than the session's last update, while the
\* other session id is absent
C4_Witness ==
    /\ lastOp.op = "append"
    /\ lastOp.ret = FALSE
    /\ lastOp.arg = {"system"}
    /\ lastOp.sid \in DOMAIN sessions
    /\ Len(sessions[lastOp.sid].messages) > 0
    /\ sessions[lastOp.sid].updated_at < now
    /\ DOMAIN sessions # SessionIds

\* C5: reset on an existing session returns true, empties its messages, keeps
\* its id, metadata, created_at and max_exchanges, and leaves every other
\* session unchanged; on an absent id it returns false and changes nothing.
C5_ResetFrame ==
    [][lastOp'.op = "reset" =>
        LET sid == lastOp'.sid
        IN  IF sid \in DOMAIN sessions
            THEN /\ lastOp'.ret = TRUE
                 /\ DOMAIN sessions' = DOMAIN sessions
                 /\ sessions'[sid].messages = <<>>
                 /\ sessions'[sid].session_id = sessions[sid].session_id
                 /\ sessions'[sid].metadata = sessions[sid].metadata
                 /\ sessions'[sid].created_at = sessions[sid].created_at
                 /\ sessions'[sid].max_exchanges = sessions[sid].max_exchanges
                 /\ \A o \in (DOMAIN sessions) \ {sid} : sessions'[o] = sessions[o]
            ELSE /\ lastOp'.ret = FALSE
                 /\ sessions' = sessions]_vars

\* a reset just succeeded on a session with metadata that was created earlier,
\* while another session holds messages
C5_Witness ==
    /\ lastOp.op = "reset"
    /\ lastOp.ret = TRUE
    /\ lastOp.sid \in DOMAIN sessions
    /\ sessions[lastOp.sid].metadata # {}
    /\ sessions[lastOp.sid].created_at < sessions[lastOp.sid].updated_at
    /\ \E o \in (DOMAIN sessions) \ {lastOp.sid} : Len(sessions[o].messages) > 0

\* C6: cleanup_idle(max_age) removes exactly the sessions whose updated_at is
\* more than max_age before the time of the call, returns how many it removed,
\* and leaves every other session as it was.
C6_CleanupExact ==
    [][lastOp'.op = "cleanup" =>
        \A max_age \in lastOp'.arg :
            LET old == {sid \in DOMAIN sessions : now - sessions[sid].updated_at > max_age}
            IN  /\ DOMAIN sessions' = (DOMAIN sessions) \ old
                /\ lastOp'.ret = Cardinality(old)
                /\ \A sid \in DOMAIN sessions' : sessions'[sid] = sessions[sid]]_vars

\* a cleanup just removed a session and kept one that holds messages and was
\* created more than max_age ago but appended to within max_age
C6_Witness ==
    /\ lastOp.op = "cleanup"
    /\ lastOp.ret = 1
    /\ \E sid \in DOMAIN sessions, max_age \in lastOp.arg :
          /\ Len(sessions[sid].messages) > 0
          /\ now - sessions[sid].created_at > max_age
          /\ now - sessions[sid].updated_at <= max_age

----------------------------------------------------------------------------
(* SkillsExtractor claims *)

\* the last extract_skills call and the call before it on the same text both
\* had caching enabled, and the earlier one found no cache entry for the text
TwoCachedCalls ==
    /\ lastEx.op = "extract"
    /\ lastEx.use_cache
    /\ lastEx.before.seen
    /\ lastEx.before.use_cache
    /\ lastEx.before.cold

C8_CacheHitFrame ==
    [][(lastEx'.op = "extract" /\ lastEx'.hit) =>
        /\ \E o \in cache : /\ o.cache_key = generate_cache_key(lastEx'.text)
                            /\ lastEx'.ret = json_loads(o.skills)
        /\ lastEx'.calls = 0
        /\ llm_calls' = llm_calls
        /\ cache' = cache
        /\ cache_exists' = cache_exists]_vars

\* a cache hit just returned the list of its text, at a time later than the
\* entry was cached, while the cache holds another text's different list
C8_Witness ==
    /\ lastEx.op = "extract"
    /\ lastEx.hit
    /\ \E o \in cache, p \in cache :
          /\ o.cache_key = generate_cache_key(lastEx.text)
          /\ json_loads(o.skills) = lastEx.ret
          /\ o.cached_at < now
          /\ p.cache_key # o.cache_key
          /\ p.skills # o.skills

C10_ScoreInUnitInterval ==
    /\ \A o \in skill_store : o.proficiency_score >= 0 /\ o.proficiency_score <= 100
    /\ lastSk.op = "score" => (lastSk.score >= 0 /\ lastSk.score <= 100)

\* calculate_proficiency was just called with a list that repeats an id for a
\* skill that has a persisted record, and took the fallback path
C10_Witness ==
    /\ lastSk.op = "score"
    /\ lastSk.docs = <<"d1", "d1", "d2">>
    /\ lastSk.score = DefaultProficiency
    /\ \E o \in skill_store : o.name = lastSk.name /\ o.occurrence_count >= 2

\* C11 (as claimed): whenever calculate_proficiency returns without a failed
\* vector-store call, its score is min(n/10, 0.5) + min(u/5, 0.3) + recency
\* capped at 1.0, with n the number of documents, u the number of distinct
\* ones and recency 0.20 for a skill without a persisted record, otherwise
\* 0.20 / 0.15 / 0.10 / 0.05 by the age of the persisted last_used.
C11_FixedFormula ==
    (lastSk.op = "score" /\ lastSk.fail = "none") =>
        LET n       == Len(lastSk.docs)
            u       == Cardinality(Range(lastSk.docs))
            stored  == skill_exists /\ \E o \in skill_store : o.name = lastSk.name
            recency == IF stored THEN RecencyScore(lastSk.age) ELSE 20
        IN  lastSk.score = Min(Min(n * 10, 50) + Min(u * 20, 30) + recency, 100)

----------------------------------------------------------------------------
(* Pipeline claims *)

RECURSIVE CountIn(_, _)
CountIn(x, s) == IF s = <<>> THEN 0
                 ELSE (IF Head(s) = x THEN 1 ELSE 0) + CountIn(x, Tail(s))

RECURSIVE CountInBuckets(_, _, _)
CountInBuckets(x, buckets, keys) ==
    IF keys = {} THEN 0
    ELSE LET k == CHOOSE y \in keys : TRUE
         IN  CountIn(x, buckets[k]) + CountInBuckets(x, buckets, keys \ {k})

\* the bucket the claim gives a skill: the first category of the taxonomy, in
\* declaration order, with a matching entry, "other" when there is none
BucketOf(skill) ==
    IF \E c \in 1..Len(SKILL_CATEGORIES) : CategoryMatches(skill, c)
    THEN LET first == CHOOSE c \in 1..Len(SKILL_CATEGORIES) :
                          /\ CategoryMatches(skill, c)
                          /\ \A b \in 1..(c - 1) : ~CategoryMatches(skill, b)
         IN  SKILL_CATEGORIES[first].category
    ELSE "other"

\* C12: in the result of categorize_skills every input element lies in exactly
\* one bucket, the first matching category in declaration order or "other";
\* counted with multiplicity the buckets together hold exactly the input, in
\* input order inside each bucket.
C12_CategorizationTotal ==
    lastCat.op = "categorize" =>
        LET r == lastCat.ret
            s == lastCat.skills
        IN  /\ \A x \in Range(s) :
                  /\ CountInBuckets(x, r, DOMAIN r) = CountIn(x, s)
                  /\ BucketOf(x) \in DOMAIN r
                  /\ \A k \in DOMAIN r : (CountIn(x, r[k]) > 0) = (k = BucketOf(x))
            /\ \A k \in DOMAIN r :
                  /\ r[k] # <<>>
                  /\ Range(r[k]) \subseteq Range(s)
                  /\ r[k] = SelectSeq(s, LAMBDA x : BucketOf(x) = k)

\* categorize_skills was just called on a list that repeats a name, holds a
\* name matching several categories and a name matching none
C12_Witness ==
    /\ lastCat.op = "categorize"
    /\ lastCat.skills = <<<<"R", "e", "a", "c", "t">>, <<"Y", "o", "g", "a">>,
                          <<"R", "e", "a", "c", "t">>>>
    /\ Len(MatchingCategories(<<"R", "e", "a", "c", "t">>)) > 1
    /\ DOMAIN lastCat.ret = {"programming_languages", "other"}

InitClients ==
    /\ SessionIdle /\ SkillsIdle /\ PipelineIdle
    /\ FormatIdle /\ RunIdle /\ TrackerIdle /\ GenerateRaceIdle
    /\ clients = <<>>
    /\ locks = [h \in CredHashes |-> "absent"]
    /\ conns = [p \in ConnCallers |-> IdleConn]
    /\ opened = <<>>
    /\ cleanup = IdleCleanUp
    /\ minutes = MinutePoints[1]

SpecConnect == InitClients /\ [][NextConnect]_vars

SpecCleanUp == InitClients /\ [][NextCleanUp]_vars

\* C13: after any sequence of non-overlapping upserts the skill store holds
\* exactly one record per skill name upserted and none for any other name; the
\* record's occurrence_count is the number of upserts made for the name and its
\* source_documents lists, without duplicates, exactly the document ids passed
\* for that name.
C13_UpsertMerge ==
    /\ \A o \in skill_store, p \in skill_store : o.name = p.name => o = p
    /\ \A name \in SkillNames :
          IF upserted[name].count = 0
          THEN \A o \in skill_store : o.name # name
          ELSE \E o \in skill_store :
                  /\ o.name = name
                  /\ o.occurrence_count = upserted[name].count
                  /\ Range(o.source_documents) = upserted[name].docs
                  /\ Len(o.source_documents) = Cardinality(upserted[name].docs)

\* a second upsert was just made for a name with the document of the first,
\* while the store also holds a record of another name
C13_Witness ==
    /\ lastSk.op = "upsert"
    /\ lastSk.ret = "ok"
    /\ upserted[lastSk.name].count = 2
    /\ Cardinality(upserted[lastSk.name].docs) = 1
    /\ \E o \in skill_store : o.name # lastSk.name

\* C14 (as claimed): once two upserts of one skill name that both observed a
\* miss have both completed their write, the skill store holds a single record
\* of that name.
C14_RaceKeepsNameUnique ==
    \A p \in Callers, q \in Callers :
        (/\ p # q
         /\ upserts[p].pc = "done" /\ upserts[q].pc = "done"
         /\ upserts[p].name = upserts[q].name
         /\ ~upserts[p].hit /\ ~upserts[q].hit)
          => Cardinality({o \in skill_store : o.name = upserts[p].name}) = 1

\* the places of the well-formed JSON objects in a response: start and end of
\* a "{", members, "}" run
ObjectsIn(response) ==
    {se \in (1..Len(response)) \X (1..Len(response)) :
        /\ se[1] < se[2]
        /\ json_loads_object(SubSeq(response, se[1], se[2])).ok}

\* the fields of the first well-formed JSON object of a response
FirstObjectIn(response) ==
    LET first == CHOOSE se \in ObjectsIn(response) :
                     \A other \in ObjectsIn(response) : se[1] <= other[1]
    IN  json_loads_object(SubSeq(response, first[1], first[2])).value

\* a JobRequirements with the fields of a parsed object, empty where absent
RequirementsOf(data) ==
    [f \in DOMAIN EmptyRequirements |-> DictGet(data, f, EmptyRequirements[f])]

\* C15 (as claimed): no content of the response makes extract_job_requirements
\* raise, and a response with no parsable JSON object gives a JobRequirements
\* whose six fields are all empty.
C15_NoRaiseOnContent ==
    lastReq.op = "extract" =>
        /\ ~lastReq.raised
        /\ ObjectsIn(lastReq.response) = {} => lastReq.ret = EmptyRequirements

BraceSpan(response) ==
    PySlice(response, StrFind(response, "{"), StrRFind(response, "}") + 1)

SortedByScoreDesc(xs) == \A i \in 1..(Len(xs) - 1) : xs[i].score >= xs[i + 1].score

\* a collection is unavailable when a vector-store call made for it fails
Unavailable(coll) == coll.state \in {"exists_fails", "search_fails"}

\* what the search of an available collection returns: its first limit // 2
\* ranked objects
ResultsOf(coll, collection_name, limit) ==
    {[id |-> <<collection_name, i>>,
      score |-> IF coll.hits[i].scored THEN coll.hits[i].score ELSE 0,
      source |-> collection_name] : i \in 1..Min(limit \div 2, Len(coll.hits))}

\* C17 (as claimed): when one of the two collections is unavailable and the
\* other answers, retrieve_relevant_experiences does not raise and returns
\* exactly the other collection's results, sorted by score descending.
C17_PartialFailure ==
    (lastRet.op = "retrieve" /\ ~lastRet.embed_fails) =>
        /\ (Unavailable(lastRet.worklog) /\ lastRet.chunk.state = "ok") =>
              /\ ~lastRet.raised
              /\ Range(lastRet.ret) = ResultsOf(lastRet.chunk, chunk_collection, lastRet.limit)
              /\ Len(lastRet.ret) = Cardinality(Range(lastRet.ret))
              /\ SortedByScoreDesc(lastRet.ret)
        /\ (Unavailable(lastRet.chunk) /\ lastRet.worklog.state = "ok") =>
              /\ ~lastRet.raised
              /\ Range(lastRet.ret) = ResultsOf(lastRet.worklog, worklog_collection,
                                                lastRet.limit)
              /\ Len(lastRet.ret) = Cardinality(Range(lastRet.ret))
              /\ SortedByScoreDesc(lastRet.ret)

\* the number of items of a result list that come from one collection
CountFrom(xs, collection_name) ==
    Cardinality({i \in 1..Len(xs) : xs[i].source = collection_name})

\* everything the two searches can return, whatever limit they are given
AllResultsOf(coll, collection_name) ==
    {[id |-> <<collection_name, i>>,
      score |-> IF coll.hits[i].scored THEN coll.hits[i].score ELSE 0,
      source |-> collection_name] : i \in 1..Len(coll.hits)}

\* C18: for every limit >= 0 and every pair of collection results, the list
\* retrieve_relevant_experiences returns is sorted by score in non-increasing
\* order, has at most limit elements, at most limit/2 of them from each
\* collection, and holds only items returned by one of the two searches, each
\* tagged with its source collection and none of them twice.
C18_RetrievalShape ==
    (lastRet.op = "retrieve" /\ ~lastRet.raised) =>
        /\ SortedByScoreDesc(lastRet.ret)
        /\ Len(lastRet.ret) <= lastRet.limit
        /\ 2 * CountFrom(lastRet.ret, worklog_collection) <= lastRet.limit
        /\ 2 * CountFrom(lastRet.ret, chunk_collection) <= lastRet.limit
        /\ Range(lastRet.ret) \subseteq
              AllResultsOf(lastRet.worklog, worklog_collection)
              \cup AllResultsOf(lastRet.chunk, chunk_collection)
        /\ Len(lastRet.ret) = Cardinality(Range(lastRet.ret))

\* a retrieval with an odd limit just returned a list that mixes the two
\* collections, from collections that each hold more objects than limit // 2,
\* the lower-ranked ones with the higher scores
C18_Witness ==
    /\ lastRet.op = "retrieve"
    /\ ~lastRet.raised
    /\ lastRet.limit = 3
    /\ Len(lastRet.worklog.hits) = 2
    /\ Len(lastRet.chunk.hits) = 2
    /\ lastRet.worklog.hits[2].score > lastRet.worklog.hits[1].score
    /\ Len(lastRet.ret) = 2
    /\ lastRet.ret[1].source = chunk_collection
    /\ lastRet.ret[2].source = worklog_collection
    /\ lastRet.ret[1].score > lastRet.ret[2].score

----------------------------------------------------------------------------
(* generate_resume claims *)

\* the role/content pairs of a list of messages
RoleContent(messages) ==
    [i \in 1..Len(messages) |-> [role |-> messages[i].role, content |-> messages[i].content]]

\* s is what is left of t after dropping some of its oldest entries
IsSuffix(s, t) == Len(s) <= Len(t) /\ s = SubSeq(t, Len(t) - Len(s) + 1, Len(t))

C20_SessionResolvedBeforeStream ==
    [][(gen.pc = "idle" /\ gen'.pc = "streaming" /\ Truthy(gen'.session_id)) =>
          LET sid == gen'.session_id
          IN  IF sid \notin DOMAIN sessions
              THEN /\ DOMAIN sessions' = DOMAIN sessions \cup {sid}
                   /\ \A x \in DOMAIN sessions : sessions'[x] = sessions[x]
                   /\ sessions'[sid].metadata =
                          {<<"job_description", lastGen'.job_description>>,
                           <<"target_role", lastGen'.role_description>>}
                   /\ sessions'[sid].messages = <<>>
                   /\ gen'.conversation = <<>>
              ELSE /\ sessions' = sessions
                   /\ gen'.conversation = RoleContent(sessions[sid].messages)]_vars

\* a call with another job description has started on a known session that
\* holds the two turns of an earlier call
C20_Witness ==
    /\ lastGen.op = "begin"
    /\ lastGen.session_id \in DOMAIN sessions
    /\ Len(gen.conversation) = 2
    /\ gen.conversation[1].role = "user"
    /\ gen.conversation[2].role = "assistant"
    /\ <<"job_description", lastGen.job_description>> \notin
           sessions[lastGen.session_id].metadata
    /\ Len(sessions[lastGen.session_id].messages) = 2

----------------------------------------------------------------------------
(* Formatting, pipeline and ResumeHistoryStore claims *)

\* C21 (as claimed): format_resume with target pdf or docx always fails and
\* returns no bytes, and the error it raises is of a class that differs from
\* the one raised for an unknown format and from the one raised when the
\* markdown encoding fails; markdown returns the content encoded as bytes.
C21_NotImplementedDistinct ==
    lastFmt.op = "format" =>
        /\ Lower(lastFmt.target_format) \in {<<"p", "d", "f">>, <<"d", "o", "c", "x">>} =>
              /\ lastFmt.raised
              /\ lastFmt.ret = NoBytes
              /\ lastFmt.exc.class # format_resume(lastFmt.content, <<"h", "t", "m", "l">>).exc.class
              /\ lastFmt.exc.class #
                     format_resume(NoContent, <<"m", "a", "r", "k", "d", "o", "w", "n">>).exc.class
        /\ (Lower(lastFmt.target_format) = <<"m", "a", "r", "k", "d", "o", "w", "n">>
              /\ lastFmt.content # NoContent) =>
              /\ ~lastFmt.raised
              /\ lastFmt.ret = Utf8(lastFmt.content)

\* s is the first Len(s) entries of t
IsPrefix(s, t) == Len(s) <= Len(t) /\ s = SubSeq(t, 1, Len(s))

\* the text each stage's own wrapper puts in front of the cause
StageErrors ==
    <<"Failed to extract job requirements", "Failed to retrieve relevant experiences",
      "Failed to generate resume", "Failed to save resume record">>

\* C22 (as claimed): a generation run passes through its stages in the order
\* requirements-extracted, experiences-retrieved, resume-generated,
\* persisted; a run that has completed a stage ends either persisted, with all
\* four stages passed, or with no record saved and an error that names the
\* stage after its last completed one as the stage that failed.
C22_StagesInOrder ==
    run.pc = "done" =>
        /\ IsPrefix(run.stages, Stages)
        /\ run.saved <=> run.stages = Stages
        /\ Len(run.stages) >= 1 =>
              \/ run.stages = Stages /\ run.status = 201
              \/ /\ run.status = 500
                 /\ Len(run.error) >= 2
                 /\ run.error[2] = StageErrors[Len(run.stages) + 1]

\* what the caller of a ResumeTracker operation can branch on
Outcome(res) == [raised |-> res.raised, class |-> res.class]

\* C23 (as claimed): for get, update and delete the outcome for an id that is
\* not in the store differs, for the caller, from the outcome of the same call
\* when the backing store is unavailable, and the endpoints answer 404 for
\* the missing record.
C23_NotFoundDistinct ==
    (lastTrk.op \in {"get", "update", "delete"} /\ lastTrk.missing) =>
        /\ Outcome(lastTrk.res) # Outcome(TrackerRaised(<<>>))
        /\ lastTrk.op \in {"get", "delete"} => lastTrk.status = 404

\* C24 (as claimed): when the language-model call of extract_skills fails
\* (the generator or its stream raises), extract_skills raises; it does not
\* return a normal result that hides the failure.
C24_LLMFailurePropagates ==
    (lastEx.op = "extract" /\ lastEx.llm = "raise") => lastEx.raised

----------------------------------------------------------------------------
(* Claims on overlapping generate_resume calls *)

\* the turns of the calls that returned a Resume, in the order they returned
RECURSIVE CompletedTurns(_)
CompletedTurns(done) ==
    IF done = <<>> THEN <<>>
    ELSE LET c == Head(done)
         IN  (IF c.returned
              THEN <<[role |-> "user", content |-> c.prompt],
                     [role |-> "assistant", content |-> c.full_response]>>
              ELSE <<>>) \o CompletedTurns(Tail(done))

\* the exchanges of a session's log are not in the order their calls completed
ExchangeOrderMismatch ==
    \E sid \in DOMAIN sessions :
        ~IsSuffix(RoleContent(sessions[sid].messages), CompletedTurns(completed))

C27_ReturnedRunIsRecorded ==
    [][(max_exchanges >= 1 /\ Len(completed') = Len(completed) + 1
          /\ completed'[Len(completed')].returned) =>
          LET c == completed'[Len(completed')]
          IN  /\ RaceSessionId \in DOMAIN sessions'
              /\ IsSuffix(<<[role |-> "user", content |-> c.prompt],
                            [role |-> "assistant", content |-> c.full_response]>>,
                          RoleContent(sessions'[RaceSessionId].messages))]_vars

\* a log of whole exchanges: user, assistant, user, assistant, ...
WholeExchanges(messages) ==
    /\ Len(messages) % 2 = 0
    /\ \A i \in 1..Len(messages) :
          messages[i].role = IF i % 2 = 1 THEN "user" ELSE "assistant"

\* C28: with max_exchanges >= 1, at every suspension point of every
\* interleaving of generate_resume calls, resets and deletes, the log of each
\* session holds whole exchanges: it has even length and alternates user,
\* assistant from a user message on, also after pruning.
C28_WholeExchanges ==
    max_exchanges >= 1 => \A sid \in DOMAIN sessions : WholeExchanges(sessions[sid].messages)

\* the second call was shown the first call's exchange, and its own exchange
\* has evicted it from the full window
C28_Witness ==
    /\ max_exchanges = 1
    /\ Len(completed) = 2
    /\ completed[1].returned /\ completed[2].returned
    /\ completed[2].shown = 2
    /\ RaceSessionId \in DOMAIN sessions
    /\ Len(sessions[RaceSessionId].messages) = 2
    /\ sessions[RaceSessionId].messages[1].content = completed[2].prompt


\* C26 (as claimed): every completed upsert is counted: once the
\* store_or_update_skill calls made for one skill name have all completed,
\* whatever the interleaving at their vector-store awaits, the record persisted
\* for that name has an occurrence_count equal to the number of those calls.
C26_EveryUpsertCounted ==
    \A name \in SkillNames :
        LET made == {p \in Callers : upserts[p].pc # "idle" /\ upserts[p].name = name}
        IN  (made # {} /\ \A p \in made : upserts[p].pc = "done")
              => /\ \E o \in skill_store : o.name = name
                 /\ \A o \in skill_store :
                        o.name = name => o.occurrence_count = Cardinality(made)


----------------------------------------------------------------------------
(* Claims on ClientManager *)

\* the clients manager.connect returned for a credentials hash
OpenedFor(cred_hash) == {i \in 1..Len(opened) : opened[i] = cred_hash}

\* C29: connect creates at most one client per credentials hash: however the
\* connect calls made with the same credentials interleave, manager.connect
\* returns a client for them at most once, the client map holds one entry for
\* the hash, and every call that returns gives the client of that entry.
C29_OneClientPerHash ==
    \A cred_hash \in CredHashes :
        /\ Cardinality(OpenedFor(cred_hash)) <= 1
        /\ Cardinality({i \in 1..Len(clients) : clients[i].cred_hash = cred_hash}) <= 1
        /\ \A p \in ConnCallers :
              (conns[p].pc = "returned" /\ conns[p].cred_hash = cred_hash)
                => /\ HasClient(clients, cred_hash)
                   /\ conns[p].client = ClientOf(clients, cred_hash)

\* three calls with the same credentials overlapped: the first connection
\* failed, a call that waited for the lock opened the client, and another call
\* that waited was given that client
C29_Witness ==
    \E p \in ConnCallers, q \in ConnCallers, r \in ConnCallers :
        /\ p # q /\ q # r /\ p # r
        /\ conns[p].cred_hash = conns[q].cred_hash
        /\ conns[q].cred_hash = conns[r].cred_hash
        /\ conns[p].pc = "raised" /\ ~conns[p].waited
        /\ conns[q].pc = "returned" /\ conns[q].waited
        /\ conns[r].pc = "returned" /\ conns[r].waited
        /\ conns[q].client = conns[r].client
        /\ Cardinality(OpenedFor(conns[q].cred_hash)) = 1

\* C30 (as claimed): clean_up never raises, whatever the client map holds and
\* however connect calls interleave with it, and when it has returned it has
\* removed each client that was older than max_time or not ready exactly once
\* and has left every other client of the map in place.
C30_CleanUpCompletes ==
    /\ cleanup.pc # "raised"
    /\ cleanup.pc = "done" =>
          LET flagged == Range(cleanup.clients_to_remove)
          IN  /\ Range(cleanup.removed) = flagged
              /\ Len(cleanup.removed) = Cardinality(flagged)
              /\ \A i \in 1..Len(cleanup.before) :
                    cleanup.before[i].cred_hash \notin flagged
                      => /\ HasClient(clients, cleanup.before[i].cred_hash)
                         /\ ClientOf(clients, cleanup.before[i].cred_hash)
                               = cleanup.before[i].client

====
